---- MODULE Spec2Model ----
(***************************************************************************)
(* Asset ingestion pipeline of the scraper worker: the Content Store (R2), *)
(* the Metadata Ledger (Supabase tables assets, segment_assets,            *)
(* pipeline_jobs), the Asset Uploader (uploadAndRegisterAsset), the        *)
(* Segment Ingestion Orchestrator (scrapeSegment) and the Job Runner.      *)
(* Every remote call (store put, ledger read, ledger write, remote fetch)  *)
(* either takes effect or fails without effect; which of the two happens   *)
(* is chosen nondeterministically at each call.                            *)
(***************************************************************************)
EXTENDS Integers, Sequences, FiniteSets, TLC

VARIABLES
  r2,              \* Content Store: storage key -> stored object
  works,           \* ledger table works
  editions,        \* ledger table editions
  segments,        \* ledger table segments
  assets,          \* ledger table assets
  segment_assets,  \* ledger table segment_assets
  jobs,            \* ledger table pipeline_jobs: sequence of rows, id = index
  now,             \* the ledger's clock (NOW(), new Date())
  up,              \* per worker: the frame of uploadAndRegisterAsset
  sg,              \* per worker: the frame of scrapeSegment
  cli,             \* per worker: the scrape:segment command of cli.ts
  sw,              \* per worker: the frame of scrapeWork
  rn,              \* per worker: the frame of the job runner
  isRunning,       \* per worker: the run flag of jobRunner.ts
  calls,           \* per worker: the direct uploader calls completed so far
                   \* (their number, and the arguments and result of the last)
  bk,              \* per worker: the frame of bulkScrapeSegments
  da,              \* per worker: the frame of a direct downloadAsset call
  ct               \* the frame of a direct detectContentType call

\* what the uploader never touches
ingestVars == <<works, editions, segments, jobs, now, sg, cli, sw, rn, isRunning, bk,
                da, ct>>
callerVars == <<ingestVars, calls>>

vars == <<r2, works, editions, segments, assets, segment_assets, jobs, now,
          up, sg, cli, sw, rn, isRunning, calls, bk, da, ct>>

-----------------------------------------------------------------------------
(* Bounds and small input sets *)

Workers == {"w1", "w2"}
Solo == {"w1"}

MaxCalls == 2
\* rows the jobs table may grow to
MaxJobs == 4
\* jobs a producer has queued before the runner starts
MaxQueued == 2

\* payloads as byte sequences: a JPEG header, a PNG header and plain text
Payloads == { <<255, 216, 255, 224>>, <<104, 105>> }
ItemKinds == { "image", "subtitle", "text" }

NoId == 0

-----------------------------------------------------------------------------
(* Pure helpers *)

\* src/utils/hash.ts: digest and byte length of a payload
computeFileHash(buffer) ==
  [sha256 |-> <<"sha256", buffer>>, bytes |-> Len(buffer)]

\* the asset type and the role the call sites of scrapeSegment pass together
AssetTypeOf(kind) ==
  CASE kind = "image" -> "raw_image"
    [] kind = "subtitle" -> "raw_subtitle"
    [] kind = "text" -> "cleaned_text"

RoleOf(kind) ==
  CASE kind = "image" -> "page"
    [] kind = "subtitle" -> "subtitle"
    [] kind = "text" -> "text"

Retries == 5

-----------------------------------------------------------------------------
(* Storage keys *)

\* decimal digits of n, most significant first (String(n))
RECURSIVE DigitsOf(_)
DigitsOf(n) == IF n < 10 THEN <<n>> ELSE Append(DigitsOf(n \div 10), n % 10)

\* String.padStart(width, '0'): never truncates
RECURSIVE PadStart(_, _)
PadStart(digits, width) ==
  IF Len(digits) >= width THEN digits ELSE PadStart(<<0>> \o digits, width)

\* a URL as the pipeline sees it: whether new URL(url) accepts it (it is
\* absolute), and the extension of its path
AbsUrl(name, ext) == [absolute |-> TRUE, name |-> name, ext |-> ext]
RelUrl(name, ext) == [absolute |-> FALSE, name |-> name, ext |-> ext]

\* the pseudo URL `text-${i}.txt` the text loop passes to getAssetFilename
TextUrl(i) == RelUrl(<<"text-", i>>, ".txt")

InvalidFilename == [stem |-> "invalid-url", num |-> <<>>, ext |-> ""]

\* a file name taken from the type alone, every item numbered 1
getAssetFilenameUnnumbered(url, index, type) ==
  IF ~url.absolute THEN InvalidFilename
  ELSE LET ext == IF url.ext = "" THEN ".webp" ELSE url.ext
       IN CASE type = "image" ->
                 [stem |-> "page-", num |-> PadStart(DigitsOf(1), 3), ext |-> ext]
            [] type = "subtitle" ->
                 [stem |-> "sub-", num |-> PadStart(DigitsOf(1), 2), ext |-> ext]
            [] type = "text" ->
                 [stem |-> "text-", num |-> PadStart(DigitsOf(1), 2), ext |-> ".txt"]

\* getAssetFilename(url, index, type); new URL(url) throws on a URL that is
\* not absolute, which InvalidFilename stands for
getAssetFilename(url, index, type) ==
  IF ~url.absolute THEN InvalidFilename
  ELSE LET ext == IF url.ext = "" THEN ".webp" ELSE url.ext
       IN CASE type = "image" ->
                 [stem |-> "page-", num |-> PadStart(DigitsOf(index + 1), 3), ext |-> ext]
            [] type = "subtitle" ->
                 [stem |-> "sub-", num |-> PadStart(DigitsOf(index + 1), 2), ext |-> ext]
            [] type = "text" ->
                 [stem |-> "text-", num |-> PadStart(DigitsOf(index + 1), 2), ext |-> ".txt"]

ManifestFilename == [stem |-> "assets", num |-> <<>>, ext |-> ".json"]

\* the optional segmentInfo argument left out
NoSegmentInfo == [type |-> "", number |-> 0]

\* buildR2Key(media, workId, editionId, filename, segmentInfo): the path
\* raw/<media>/<workId>/<editionId>[/<type>-<number>]/<filename>
buildR2Key(media, workId, editionId, filename, segmentInfo) ==
  <<"raw", media, workId, editionId,
    IF segmentInfo = NoSegmentInfo THEN <<>>
    ELSE <<segmentInfo.type, segmentInfo.number>>,
    filename>>

-----------------------------------------------------------------------------
(* Metadata Ledger: the catalog an earlier work-list discovery left behind *)

SeedWorks == { [id |-> 1, title |-> "title"] }
SeedEditions ==
  { [id |-> 1, work_id |-> 1, media_type |-> "novel", provider |-> "prov",
     canonical_url |-> "src"] }
\* segment 2 is a row whose edition does not come back from the join
SeedSegments ==
  { [id |-> 1, edition_id |-> 1, segment_type |-> "chapter", number |-> 5,
     title |-> "five", canonical_url |-> "u5"],
    [id |-> 2, edition_id |-> 7, segment_type |-> "chapter", number |-> 6,
     title |-> "six", canonical_url |-> "u6"] }

\* segment ids a caller may pass: two rows of the ledger and an unknown id
SegmentIds == { 1, 2, 9 }

\* what getSegmentById selects of a segment row and of its edition
SegView(sr) ==
  [id |-> sr.id, edition_id |-> sr.edition_id, segment_type |-> sr.segment_type,
   number |-> sr.number]
EdView(ed) == [id |-> ed.id, work_id |-> ed.work_id, media_type |-> ed.media_type]

SegmentRows(segmentId) == { s \in segments : s.id = segmentId }
EditionRows(editionId) == { e \in editions : e.id = editionId }

\* the storage key of item `index` (0-based) of `type` at `url` in segment row sr
\* of edition row ed
ItemKey(ed, sr, url, index, type) ==
  buildR2Key(ed.media_type, ed.work_id, ed.id, getAssetFilename(url, index, type),
             [type |-> sr.segment_type, number |-> sr.number])

ImageUrl(i) == AbsUrl(<<"img", i>>, ".jpg")
SubtitleUrl(i) == AbsUrl(<<"sub", i>>, ".vtt")

\* arguments of the direct uploader calls: pages 1 and 2 of segment 1
Segments == { 1 }
Keys ==
  { ItemKey(ed, sr, ImageUrl(i), i, "image") :
      ed \in SeedEditions, sr \in { x \in SeedSegments : x.id = 1 }, i \in 0..1 }

-----------------------------------------------------------------------------
(* Content Store *)

StoreHas(key) == key \in DOMAIN r2

\* uploadToR2: PutObject overwrites by key
PutObject(store, key, body) ==
  [k \in (DOMAIN store) \cup {key} |-> IF k = key THEN body ELSE store[k]]

-----------------------------------------------------------------------------
(* Metadata Ledger: assets and segment_assets *)

AssetsByKey(key) == { a \in assets : a.r2_key = key }

NewAssetId == Cardinality(assets) + 1

AssetRow(id, key, assetType, bytes, sha256) ==
  [id |-> id, r2_key |-> key, asset_type |-> assetType, bytes |-> bytes,
   sha256 |-> sha256, upload_source |-> "pipeline"]

LinksOf(segmentId, assetId) ==
  { l \in segment_assets : l.segment_id = segmentId /\ l.asset_id = assetId }

\* an upsert that overwrites the row of a conflicting pair
UpsertLinkOverwrite(links, segmentId, assetId, role) ==
  { l \in links : ~(l.segment_id = segmentId /\ l.asset_id = assetId) }
    \cup {[segment_id |-> segmentId, asset_id |-> assetId, role |-> role]}

\* upsert with onConflict (segment_id, asset_id), ignoreDuplicates
UpsertLink(links, segmentId, assetId, role) ==
  IF \E l \in links : l.segment_id = segmentId /\ l.asset_id = assetId
  THEN links
  ELSE links \cup {[segment_id |-> segmentId, asset_id |-> assetId, role |-> role]}

-----------------------------------------------------------------------------
(* Asset Uploader: uploadAndRegisterAsset *)

IdleFrame ==
  [pc |-> "idle", buffer |-> <<>>, r2Key |-> <<>>, kind |-> "image",
   segmentId |-> NoId, attempt |-> 0, uploadedToR2 |-> FALSE, assetId |-> NoId,
   result |-> FALSE, puts |-> 0, putOkAt |-> -1, regs |-> 0, waits |-> <<>>]

\* a loop body that uploads on every attempt
BodyEntryAlwaysPut(uploaded) == "put"

\* top of the loop body: step 1 is skipped once uploadedToR2 is set
BodyEntry(uploaded) == IF uploaded THEN "lookup" ELSE "put"

\* entry of the for loop (attempt < retries), else the trailing return false
LoopEntry(attempt, uploaded) ==
  IF attempt < Retries THEN BodyEntry(uploaded) ELSE "ret_false"

StartUpload(p, buffer, key, kind, segmentId) ==
  up' = [up EXCEPT ![p] =
           [IdleFrame EXCEPT !.pc = LoopEntry(0, FALSE), !.buffer = buffer,
                             !.r2Key = key, !.kind = kind,
                             !.segmentId = segmentId]]

\* Math.pow(2, n) and Math.min
RECURSIVE Pow2(_)
Pow2(n) == IF n = 0 THEN 1 ELSE 2 * Pow2(n - 1)
Min(a, b) == IF a < b THEN a ELSE b

\* a delay that grows by 2 s per attempt
BackoffDelayLinear(attempt) == Min(2000 * (attempt + 1), 32000)

\* Math.min(2000 * Math.pow(2, attempt), 32000)
BackoffDelay(attempt) == Min(2000 * Pow2(attempt), 32000)

\* a catch block that rethrows on the last attempt, as downloadAsset does
CatchOutcomeRethrow(attempt) ==
  IF attempt = Retries - 1 THEN "throw" ELSE "retry"

\* the catch block: what happens to an exception of attempt `attempt`
CatchOutcome(attempt) ==
  IF attempt = Retries - 1 THEN "return_false" ELSE "retry"

\* result of the catch block applied to frame f
Caught(f) ==
  CASE CatchOutcome(f.attempt) = "return_false" ->
         [f EXCEPT !.pc = "done", !.result = FALSE]
    [] CatchOutcome(f.attempt) = "retry" ->
         [f EXCEPT !.pc = LoopEntry(f.attempt + 1, f.uploadedToR2),
                   !.attempt = f.attempt + 1,
                   !.waits = Append(f.waits, BackoffDelay(f.attempt))]
    [] OTHER -> [f EXCEPT !.pc = "thrown"]

\* step 1, the store confirms the put
UploadPutOk(p) ==
  /\ up[p].pc = "put"
  /\ r2' = PutObject(r2, up[p].r2Key, up[p].buffer)
  /\ up' = [up EXCEPT ![p] = [@ EXCEPT !.pc = "lookup", !.uploadedToR2 = TRUE,
                                       !.puts = @ + 1,
                                       !.putOkAt = up[p].attempt]]
  /\ UNCHANGED <<assets, segment_assets>> /\ UNCHANGED callerVars

\* a failed put that leaves the flag set all the same
UploadPutFailFlagSet(p) ==
  /\ up[p].pc = "put"
  /\ up' = [up EXCEPT ![p] = Caught([@ EXCEPT !.uploadedToR2 = TRUE])]
  /\ UNCHANGED <<r2, assets, segment_assets>> /\ UNCHANGED callerVars

\* step 1, uploadToR2 throws
UploadPutFail(p) ==
  /\ up[p].pc = "put"
  /\ up' = [up EXCEPT ![p] = Caught(@)]
  /\ UNCHANGED <<r2, assets, segment_assets>> /\ UNCHANGED callerVars

\* a lookup that reuses the row of any asset with the same digest
UploadLookupHitByHash(p) ==
  /\ up[p].pc = "lookup"
  /\ \E a \in { x \in assets : x.sha256 = computeFileHash(up[p].buffer).sha256 } :
       up' = [up EXCEPT ![p] = [@ EXCEPT !.pc = "attach", !.assetId = a.id,
                                         !.regs = @ + 1]]
  /\ UNCHANGED <<r2, assets, segment_assets>> /\ UNCHANGED callerVars

\* insertAsset, lookup by r2_key finds the row
UploadLookupHit(p) ==
  /\ up[p].pc = "lookup"
  /\ \E a \in AssetsByKey(up[p].r2Key) :
       up' = [up EXCEPT ![p] = [@ EXCEPT !.pc = "attach", !.assetId = a.id,
                                         !.regs = @ + 1]]
  /\ UNCHANGED <<r2, assets, segment_assets>> /\ UNCHANGED callerVars

\* insertAsset, lookup by r2_key yields no data: there is no row, or the
\* query failed (its error is not read)
UploadLookupMiss(p) ==
  /\ up[p].pc = "lookup"
  /\ up' = [up EXCEPT ![p] = [@ EXCEPT !.pc = "insert", !.regs = @ + 1]]
  /\ UNCHANGED <<r2, assets, segment_assets>> /\ UNCHANGED callerVars

\* insertAsset, the insert is accepted (r2_key is UNIQUE)
UploadInsertOk(p) ==
  /\ up[p].pc = "insert"
  /\ AssetsByKey(up[p].r2Key) = {}
  /\ LET h == computeFileHash(up[p].buffer)
         id == NewAssetId
     IN /\ assets' = assets \cup
             {AssetRow(id, up[p].r2Key, AssetTypeOf(up[p].kind), h.bytes, h.sha256)}
        /\ up' = [up EXCEPT ![p] = [@ EXCEPT !.pc = "attach", !.assetId = id]]
  /\ UNCHANGED <<r2, segment_assets>> /\ UNCHANGED callerVars

\* insertAsset, the insert returns an error (ledger failure, or a row with
\* this r2_key exists): insertAsset throws
UploadInsertFail(p) ==
  /\ up[p].pc = "insert"
  /\ up' = [up EXCEPT ![p] = Caught(@)]
  /\ UNCHANGED <<r2, assets, segment_assets>> /\ UNCHANGED callerVars

\* attachAssetToSegment returns true; its value is not read by the uploader
UploadAttachOk(p) ==
  /\ up[p].pc = "attach"
  /\ segment_assets' =
       UpsertLink(segment_assets, up[p].segmentId, up[p].assetId, RoleOf(up[p].kind))
  /\ up' = [up EXCEPT ![p] = [@ EXCEPT !.pc = "done", !.result = TRUE]]
  /\ UNCHANGED <<r2, assets>> /\ UNCHANGED callerVars

\* attachAssetToSegment logs the error and returns false; its value is not read
UploadAttachFail(p) ==
  /\ up[p].pc = "attach"
  /\ up' = [up EXCEPT ![p] = [@ EXCEPT !.pc = "done", !.result = TRUE]]
  /\ UNCHANGED <<r2, assets, segment_assets>> /\ UNCHANGED callerVars

-----------------------------------------------------------------------------
(* Metadata Ledger: pipeline_jobs *)

NoTime == 0

NoOutput ==
  [present |-> FALSE, imageCount |-> 0, subtitleCount |-> 0, textCount |-> 0,
   downloadedAssets |-> 0, successCount |-> 0, failedCount |-> 0]

\* the input payload of a job: the options of scrapeSegment or of scrapeWork
SegmentInput(segmentId, download) ==
  [segmentId |-> segmentId, download |-> download, title |-> ""]
WorkInput(title) == [segmentId |-> NoId, download |-> FALSE, title |-> title]

\* the row createJob inserts: status queued, the column defaults of the schema
JobRow(jobType, input, t) ==
  [job_type |-> jobType, input |-> input, status |-> "queued", attempt |-> 0,
   created_at |-> t, started_at |-> NoTime, finished_at |-> NoTime,
   output |-> NoOutput, error |-> ""]

\* createJob: the new row's id is its position
InsertJob(tbl, jobType, input, t) == Append(tbl, JobRow(jobType, input, t))

\* an updateJobStatus that stamps no finish time
UpdateJobRowNoFinish(row, status, output, errorMsg, t) ==
  [row EXCEPT !.status = status,
              !.output = IF output.present THEN output ELSE @,
              !.error = IF errorMsg # "" THEN errorMsg ELSE @,
              !.started_at = IF status = "running" THEN t ELSE @]

\* updateJobStatus: the columns updateData sets on the row
UpdateJobRow(row, status, output, errorMsg, t) ==
  [row EXCEPT !.status = status,
              !.output = IF output.present THEN output ELSE @,
              !.error = IF errorMsg # "" THEN errorMsg ELSE @,
              !.started_at = IF status = "running" THEN t ELSE @,
              !.finished_at = IF status \in {"success", "failed"} THEN t ELSE @]

\* updateJobStatus: update ... where id = jobId
UpdateJob(tbl, jobId, status, output, errorMsg, t) ==
  [id \in DOMAIN tbl |->
     IF id = jobId THEN UpdateJobRow(tbl[id], status, output, errorMsg, t)
     ELSE tbl[id]]

-----------------------------------------------------------------------------
(* Segment Ingestion Orchestrator: scrapeSegment *)

MaxImages == 2

\* how many subtitle files and text blocks the fetcher may report
SubCounts == {0, 1}
TextCounts == {0, 1}

\* what the remote site serves at a URL
RemoteBytes(url) ==
  IF url.ext = ".jpg" THEN <<255, 216, 255, 224>> ELSE <<104, 105>>

DownloadRetries == 5

NoSegRow == [id |-> NoId, edition_id |-> NoId, segment_type |-> "", number |-> 0]
NoEdRow == [id |-> NoId, work_id |-> NoId, media_type |-> ""]

IdleSeg ==
  [pc |-> "idle", jobId |-> NoId, segmentId |-> NoId, download |-> FALSE,
   segment |-> NoSegRow, edition |-> NoEdRow,
   nImages |-> 0, nSubs |-> 0, nTexts |-> 0, phase |-> "none", i |-> 0, dl |-> 0,
   successCount |-> 0, failedCount |-> 0, uploadedAssets |-> 0,
   outcomes |-> <<>>, delays |-> 0, error |-> "", writeFailed |-> FALSE,
   imagesDone |-> FALSE]

StartScrapeSegment(p, segmentId, download) ==
  sg' = [sg EXCEPT ![p] =
           [IdleSeg EXCEPT !.pc = "create", !.segmentId = segmentId,
                           !.download = download]]

\* an exception reaches the outer catch: the job is marked failed when a job
\* id is known, and the error is thrown again
SegThrow(f, err) ==
  [f EXCEPT !.error = err,
            !.pc = IF f.jobId # NoId THEN "mark_failed" ELSE "threw"]

\* "Only fail job if ALL assets failed", then the success write
Complete(f) ==
  IF f.download /\ f.successCount = 0 /\ f.nImages > 0
  THEN SegThrow(f, "zero_success")
  ELSE [f EXCEPT !.pc = "mark_success"]

\* heads of the three loops
AtTexts(f) ==
  IF f.download /\ f.i < f.nTexts THEN [f EXCEPT !.pc = "text_item"] ELSE Complete(f)

AtSubs(f) ==
  IF f.i < f.nSubs THEN [f EXCEPT !.pc = "download", !.dl = 0]
  ELSE AtTexts([f EXCEPT !.phase = "text", !.i = 0])

AtImages(f) ==
  IF f.i < f.nImages THEN [f EXCEPT !.pc = "download", !.dl = 0]
  ELSE AtSubs([f EXCEPT !.phase = "subtitle", !.i = 0, !.imagesDone = TRUE])

NextItem(f) ==
  CASE f.phase = "image" -> AtImages(f)
    [] f.phase = "subtitle" -> AtSubs(f)
    [] OTHER -> AtTexts(f)

\* loops that start with the subtitles and leave the images out
AfterManifestSubsFirst(f) ==
  IF f.download THEN AtSubs([f EXCEPT !.phase = "subtitle", !.i = 0])
  ELSE Complete(f)

\* after the manifest: the loops run only with download set
AfterManifest(f) ==
  IF f.download THEN AtImages([f EXCEPT !.phase = "image", !.i = 0])
  ELSE Complete(f)

ItemUrl(f) ==
  CASE f.phase = "image" -> ImageUrl(f.i)
    [] f.phase = "subtitle" -> SubtitleUrl(f.i)
    [] OTHER -> TextUrl(f.i)

CurrentKey(f) == ItemKey(f.edition, f.segment, ItemUrl(f), f.i, f.phase)

ManifestKey(f) ==
  buildR2Key(f.edition.media_type, f.edition.work_id, f.edition.id, ManifestFilename,
             [type |-> f.segment.segment_type, number |-> f.segment.number])

\* JSON.stringify(outputData): the listing of what the fetcher found
ManifestBody(f) == <<123, f.nImages, f.nSubs, f.nTexts, 125>>

OutputOf(f) ==
  [present |-> TRUE, imageCount |-> f.nImages, subtitleCount |-> f.nSubs,
   textCount |-> f.nTexts, downloadedAssets |-> f.uploadedAssets,
   successCount |-> f.successCount, failedCount |-> f.failedCount]

\* createJob('scrape', ...) inserts the row
SegCreateJobOk(p) ==
  /\ sg[p].pc = "create"
  /\ Len(jobs) < MaxJobs
  /\ jobs' = InsertJob(jobs, "scrape", SegmentInput(sg[p].segmentId, sg[p].download), now)
  /\ now' = now + 1
  /\ sg' = [sg EXCEPT ![p] = [@ EXCEPT !.pc = "running", !.jobId = Len(jobs) + 1]]
  /\ UNCHANGED <<r2, works, editions, segments, assets, segment_assets, up, cli, calls>>
  /\ UNCHANGED <<sw, rn, isRunning, bk, da, ct>>

\* createJob throws: no job id, the catch only rethrows
SegCreateJobFail(p) ==
  /\ sg[p].pc = "create"
  /\ sg' = [sg EXCEPT ![p] = SegThrow(@, "create_failed")]
  /\ UNCHANGED <<r2, works, editions, segments, assets, segment_assets, jobs, now,
                 up, cli, calls>>
  /\ UNCHANGED <<sw, rn, isRunning, bk, da, ct>>

\* updateJobStatus(jobId, 'running')
SegRunningOk(p) ==
  /\ sg[p].pc = "running"
  /\ jobs' = UpdateJob(jobs, sg[p].jobId, "running", NoOutput, "", now)
  /\ now' = now + 1
  /\ sg' = [sg EXCEPT ![p] = [@ EXCEPT !.pc = "get_segment"]]
  /\ UNCHANGED <<r2, works, editions, segments, assets, segment_assets, up, cli, calls>>
  /\ UNCHANGED <<sw, rn, isRunning, bk, da, ct>>

SegRunningFail(p) ==
  /\ sg[p].pc = "running"
  /\ sg' = [sg EXCEPT ![p] = SegThrow([@ EXCEPT !.writeFailed = TRUE], "status_write")]
  /\ UNCHANGED <<r2, works, editions, segments, assets, segment_assets, jobs, now,
                 up, cli, calls>>
  /\ UNCHANGED <<sw, rn, isRunning, bk, da, ct>>

\* getSegmentById returns the row with its edition
SegGetSegmentFound(p) ==
  /\ sg[p].pc = "get_segment"
  /\ \E sr \in SegmentRows(sg[p].segmentId) : \E ed \in EditionRows(sr.edition_id) :
       sg' = [sg EXCEPT ![p] = [@ EXCEPT !.pc = "fetch", !.segment = SegView(sr),
                                         !.edition = EdView(ed)]]
  /\ UNCHANGED <<r2, works, editions, segments, assets, segment_assets, jobs, now,
                 up, cli, calls>>
  /\ UNCHANGED <<sw, rn, isRunning, bk, da, ct>>

\* getSegmentById returns null: no such row, or the query failed
SegGetSegmentNull(p) ==
  /\ sg[p].pc = "get_segment"
  /\ sg' = [sg EXCEPT ![p] = SegThrow(@, "segment_not_found")]
  /\ UNCHANGED <<r2, works, editions, segments, assets, segment_assets, jobs, now,
                 up, cli, calls>>
  /\ UNCHANGED <<sw, rn, isRunning, bk, da, ct>>

\* a run that goes on to the fetcher although the edition is missing
SegGetSegmentNoEditionGoesOn(p) ==
  /\ sg[p].pc = "get_segment"
  /\ \E sr \in SegmentRows(sg[p].segmentId) :
       /\ EditionRows(sr.edition_id) = {}
       /\ sg' = [sg EXCEPT ![p] = [@ EXCEPT !.pc = "fetch", !.segment = SegView(sr)]]
  /\ UNCHANGED <<r2, works, editions, segments, assets, segment_assets, jobs, now,
                 up, cli, calls>>
  /\ UNCHANGED <<sw, rn, isRunning, bk, da, ct>>

\* the row comes back without its edition
SegGetSegmentNoEdition(p) ==
  /\ sg[p].pc = "get_segment"
  /\ \E sr \in SegmentRows(sg[p].segmentId) : EditionRows(sr.edition_id) = {}
  /\ sg' = [sg EXCEPT ![p] = SegThrow(@, "edition_not_found")]
  /\ UNCHANGED <<r2, works, editions, segments, assets, segment_assets, jobs, now,
                 up, cli, calls>>
  /\ UNCHANGED <<sw, rn, isRunning, bk, da, ct>>

\* a run that writes the manifest only when it is going to download
SegFetchOkSkipManifest(p) ==
  /\ sg[p].pc = "fetch"
  /\ \E n \in 0..MaxImages, ns \in SubCounts, nt \in TextCounts :
       sg' = [sg EXCEPT ![p] =
                IF @.download
                THEN [@ EXCEPT !.pc = "manifest", !.nImages = n,
                               !.nSubs = ns, !.nTexts = nt]
                ELSE Complete([@ EXCEPT !.nImages = n, !.nSubs = ns, !.nTexts = nt])]
  /\ UNCHANGED <<r2, works, editions, segments, assets, segment_assets, jobs, now,
                 up, cli, calls>>
  /\ UNCHANGED <<sw, rn, isRunning, bk, da, ct>>

\* loadTemplate and extractor.scrapeSegment return the payload lists
SegFetchOk(p) ==
  /\ sg[p].pc = "fetch"
  /\ \E n \in 0..MaxImages, ns \in SubCounts, nt \in TextCounts :
       sg' = [sg EXCEPT ![p] = [@ EXCEPT !.pc = "manifest", !.nImages = n,
                                         !.nSubs = ns, !.nTexts = nt]]
  /\ UNCHANGED <<r2, works, editions, segments, assets, segment_assets, jobs, now,
                 up, cli, calls>>
  /\ UNCHANGED <<sw, rn, isRunning, bk, da, ct>>

SegFetchFail(p) ==
  /\ sg[p].pc = "fetch"
  /\ sg' = [sg EXCEPT ![p] = SegThrow(@, "fetch_failed")]
  /\ UNCHANGED <<r2, works, editions, segments, assets, segment_assets, jobs, now,
                 up, cli, calls>>
  /\ UNCHANGED <<sw, rn, isRunning, bk, da, ct>>

\* uploadToR2(assetsJsonKey, ...)
SegManifestOk(p) ==
  /\ sg[p].pc = "manifest"
  /\ r2' = PutObject(r2, ManifestKey(sg[p]), ManifestBody(sg[p]))
  /\ sg' = [sg EXCEPT ![p] = AfterManifest(@)]
  /\ UNCHANGED <<works, editions, segments, assets, segment_assets, jobs, now,
                 up, cli, calls>>
  /\ UNCHANGED <<sw, rn, isRunning, bk, da, ct>>

SegManifestFail(p) ==
  /\ sg[p].pc = "manifest"
  /\ sg' = [sg EXCEPT ![p] = SegThrow(@, "manifest_put")]
  /\ UNCHANGED <<r2, works, editions, segments, assets, segment_assets, jobs, now,
                 up, cli, calls>>
  /\ UNCHANGED <<sw, rn, isRunning, bk, da, ct>>

\* downloadAsset's catch: throw on the last attempt, else try again
DownloadCatch(attempt) ==
  IF attempt = DownloadRetries - 1 THEN "throw" ELSE "retry"

\* the catch of an item's try block, by loop: only images are counted
ItemFailed(f, outcome) ==
  IF f.phase = "image"
  THEN [f EXCEPT !.failedCount = @ + 1, !.outcomes = Append(@, outcome), !.i = @ + 1]
  ELSE [f EXCEPT !.i = @ + 1]

\* downloadAsset returns the bytes; uploadAndRegisterAsset is called with them
SegDownloadOk(p) ==
  /\ sg[p].pc = "download"
  /\ up[p].pc = "idle"
  /\ StartUpload(p, RemoteBytes(ItemUrl(sg[p])), CurrentKey(sg[p]), sg[p].phase,
                 sg[p].segmentId)
  /\ sg' = [sg EXCEPT ![p] = [@ EXCEPT !.pc = "upload"]]
  /\ UNCHANGED <<r2, works, editions, segments, assets, segment_assets, jobs, now,
                 cli, calls>>
  /\ UNCHANGED <<sw, rn, isRunning, bk, da, ct>>

\* an attempt of downloadAsset fails
SegDownloadFail(p) ==
  /\ sg[p].pc = "download"
  /\ sg' = [sg EXCEPT ![p] =
              IF DownloadCatch(@.dl) = "throw"
              THEN NextItem(ItemFailed(@, "fetch_failed"))
              ELSE [@ EXCEPT !.dl = @ + 1]]
  /\ UNCHANGED <<r2, works, editions, segments, assets, segment_assets, jobs, now,
                 up, cli, calls>>
  /\ UNCHANGED <<sw, rn, isRunning, bk, da, ct>>

\* the text loop: getAssetFilename is called outside the item's try block
SegTextItem(p) ==
  /\ sg[p].pc = "text_item"
  /\ up[p].pc = "idle"
  /\ IF getAssetFilename(ItemUrl(sg[p]), sg[p].i, "text") = InvalidFilename
     THEN /\ sg' = [sg EXCEPT ![p] = SegThrow(@, "invalid_url")]
          /\ UNCHANGED up
     ELSE /\ StartUpload(p, <<104, 105>>, CurrentKey(sg[p]), "text", sg[p].segmentId)
          /\ sg' = [sg EXCEPT ![p] = [@ EXCEPT !.pc = "upload"]]
  /\ UNCHANGED <<r2, works, editions, segments, assets, segment_assets, jobs, now,
                 cli, calls>>
  /\ UNCHANGED <<sw, rn, isRunning, bk, da, ct>>

\* the uploader is back: counting, the rate-limit delay, the next item
Uploaded(f, success) ==
  CASE f.phase = "image" ->
         IF success
         THEN [f EXCEPT !.successCount = @ + 1, !.uploadedAssets = @ + 1,
                        !.outcomes = Append(@, "ok"),
                        !.delays = IF f.i < f.nImages - 1 THEN @ + 1 ELSE @,
                        !.i = @ + 1]
         ELSE [f EXCEPT !.failedCount = @ + 1,
                        !.outcomes = Append(@, "upload_failed"),
                        !.delays = IF f.i < f.nImages - 1 THEN @ + 1 ELSE @,
                        !.i = @ + 1]
    [] f.phase = "subtitle" ->
         [f EXCEPT !.uploadedAssets = IF success THEN @ + 1 ELSE @,
                   !.delays = @ + 1, !.i = @ + 1]
    [] OTHER ->
         [f EXCEPT !.uploadedAssets = IF success THEN @ + 1 ELSE @, !.i = @ + 1]

SegAfterUpload(p) ==
  /\ sg[p].pc = "upload"
  /\ up[p].pc \in {"done", "thrown"}
  /\ sg' = [sg EXCEPT ![p] =
              IF up[p].pc = "thrown" THEN NextItem(ItemFailed(@, "upload_threw"))
              ELSE NextItem(Uploaded(@, up[p].result))]
  /\ up' = [up EXCEPT ![p] = IdleFrame]
  /\ UNCHANGED <<r2, works, editions, segments, assets, segment_assets, jobs, now,
                 cli, calls>>
  /\ UNCHANGED <<sw, rn, isRunning, bk, da, ct>>

\* updateJobStatus(jobId, 'success', output)
SegMarkSuccessOk(p) ==
  /\ sg[p].pc = "mark_success"
  /\ jobs' = UpdateJob(jobs, sg[p].jobId, "success", OutputOf(sg[p]), "", now)
  /\ now' = now + 1
  /\ sg' = [sg EXCEPT ![p] = [@ EXCEPT !.pc = "returned"]]
  /\ UNCHANGED <<r2, works, editions, segments, assets, segment_assets, up, cli, calls>>
  /\ UNCHANGED <<sw, rn, isRunning, bk, da, ct>>

SegMarkSuccessFail(p) ==
  /\ sg[p].pc = "mark_success"
  /\ sg' = [sg EXCEPT ![p] = SegThrow([@ EXCEPT !.writeFailed = TRUE], "status_write")]
  /\ UNCHANGED <<r2, works, editions, segments, assets, segment_assets, jobs, now,
                 up, cli, calls>>
  /\ UNCHANGED <<sw, rn, isRunning, bk, da, ct>>

\* the catch block: updateJobStatus(jobId, 'failed', undefined, errorMessage)
SegMarkFailedOk(p) ==
  /\ sg[p].pc = "mark_failed"
  /\ jobs' = UpdateJob(jobs, sg[p].jobId, "failed", NoOutput, sg[p].error, now)
  /\ now' = now + 1
  /\ sg' = [sg EXCEPT ![p] = [@ EXCEPT !.pc = "threw"]]
  /\ UNCHANGED <<r2, works, editions, segments, assets, segment_assets, up, cli, calls>>
  /\ UNCHANGED <<sw, rn, isRunning, bk, da, ct>>

SegMarkFailedFail(p) ==
  /\ sg[p].pc = "mark_failed"
  /\ sg' = [sg EXCEPT ![p] = [@ EXCEPT !.pc = "threw", !.writeFailed = TRUE]]
  /\ UNCHANGED <<r2, works, editions, segments, assets, segment_assets, jobs, now,
                 up, cli, calls>>
  /\ UNCHANGED <<sw, rn, isRunning, bk, da, ct>>

\* the steps every run of scrapeSegment takes
SegmentCoreStep(p) ==
  \/ SegCreateJobOk(p)
  \/ SegCreateJobFail(p)
  \/ SegRunningOk(p)
  \/ SegRunningFail(p)
  \/ SegGetSegmentFound(p)
  \/ SegGetSegmentNull(p)
  \/ SegGetSegmentNoEdition(p)
  \/ SegFetchOk(p)
  \/ SegFetchFail(p)
  \/ SegManifestOk(p)
  \/ SegManifestFail(p)
  \/ SegMarkSuccessOk(p)
  \/ SegMarkSuccessFail(p)
  \/ SegMarkFailedOk(p)
  \/ SegMarkFailedFail(p)

\* the steps of the three loops, taken with download set
SegmentItemStep(p) ==
  \/ SegDownloadOk(p)
  \/ SegDownloadFail(p)
  \/ SegTextItem(p)
  \/ SegAfterUpload(p)

SegmentStep(p) == SegmentCoreStep(p) \/ SegmentItemStep(p)

-----------------------------------------------------------------------------
(* cli.ts: the scrape:segment command *)

IdleCli == [pc |-> "idle", code |-> 0]

\* scrape:segment --url --segmentId --template [--download]
CliScrapeSegment(p) ==
  /\ cli[p].pc = "idle"
  /\ up[p].pc = "idle"
  /\ \E segmentId \in SegmentIds, download \in BOOLEAN :
       StartScrapeSegment(p, segmentId, download)
  /\ cli' = [cli EXCEPT ![p] = [@ EXCEPT !.pc = "running"]]
  /\ UNCHANGED <<r2, works, editions, segments, assets, segment_assets, jobs, now,
                 up, calls>>
  /\ UNCHANGED <<sw, rn, isRunning, bk, da, ct>>

\* a command that exits with 0 whatever scrapeSegment did
CliExitZero(p) ==
  /\ cli[p].pc = "running"
  /\ sg[p].pc \in {"returned", "threw"}
  /\ cli' = [cli EXCEPT ![p] = [@ EXCEPT !.pc = "exited", !.code = 0]]
  /\ UNCHANGED <<r2, works, editions, segments, assets, segment_assets, jobs, now,
                 up, sg, calls>>
  /\ UNCHANGED <<sw, rn, isRunning, bk, da, ct>>

\* process.exit(0) after the call returned, process.exit(1) in the catch
CliExit(p) ==
  /\ cli[p].pc = "running"
  /\ sg[p].pc \in {"returned", "threw"}
  /\ cli' = [cli EXCEPT ![p] = [@ EXCEPT !.pc = "exited",
                                         !.code = IF sg[p].pc = "returned" THEN 0 ELSE 1]]
  /\ UNCHANGED <<r2, works, editions, segments, assets, segment_assets, jobs, now,
                 up, sg, calls>>
  /\ UNCHANGED <<sw, rn, isRunning, bk, da, ct>>

-----------------------------------------------------------------------------
(* scrapeWork: discovery of the segment list of a work *)

\* titles a scrape:work command may carry: one the ledger holds, one it lacks
Titles == { "title", "new" }

\* the other options of the command: media, provider, url
WorkMedia == "novel"
WorkProvider == "prov"
WorkUrl == "src"

\* what extractor.scrapeWork may return: the numbers of the segments found
UnitLists == { <<>>, <<5>>, <<5, 8>> }
\* title and url the source page gives a segment
UnitTitle == "ch"
UnitUrl == "u"

SegmentsFilename == [stem |-> "segments", num |-> <<>>, ext |-> ".json"]

IdleWork ==
  [pc |-> "idle", jobId |-> NoId, title |-> "", workId |-> NoId, editionId |-> NoId,
   units |-> <<>>, i |-> 0, existing |-> NoId, error |-> ""]

StartScrapeWork(p, title) ==
  sw' = [sw EXCEPT ![p] = [IdleWork EXCEPT !.pc = "create", !.title = title]]

\* an exception reaches the catch block of scrapeWork
WorkThrow(f, err) ==
  IF f.jobId = NoId THEN [f EXCEPT !.pc = "threw", !.error = err]
  ELSE [f EXCEPT !.pc = "mark_failed", !.error = err]

\* .single(): the row when exactly one matches, else nothing
Single(rows) == IF Cardinality(rows) = 1 THEN rows ELSE {}

WorksByTitle(title) == { w \in works : w.title = title }
EditionsLike(workId) ==
  { e \in editions : /\ e.work_id = workId /\ e.media_type = WorkMedia
                     /\ e.provider = WorkProvider /\ e.canonical_url = WorkUrl }
SegmentsAt(editionId, number) ==
  { s \in segments : s.edition_id = editionId /\ s.number = number }

\* the id the database gives a new row
NewRowId(tbl) == Cardinality(tbl) + 1

\* the loop over result.segments, then the listing
AtUnits(f) ==
  IF f.i < Len(f.units) THEN [f EXCEPT !.pc = "segment_lookup"]
  ELSE [f EXCEPT !.pc = "manifest"]

WorkManifestKey(f) ==
  buildR2Key(WorkMedia, f.workId, f.editionId, SegmentsFilename, NoSegmentInfo)

\* JSON.stringify(outputData)
WorkManifestBody(f) == <<123>> \o f.units \o <<125>>

WorkOutputOf(f) ==
  [present |-> TRUE, imageCount |-> 0, subtitleCount |-> 0, textCount |-> 0,
   downloadedAssets |-> 0, successCount |-> Len(f.units), failedCount |-> 0]

workRest == <<r2, assets, segment_assets, up, sg, cli, rn, isRunning, calls, bk, da, ct>>

\* createJob('scrape:work', ...)
WorkCreateJobOk(p) ==
  /\ sw[p].pc = "create"
  /\ Len(jobs) < MaxJobs
  /\ jobs' = InsertJob(jobs, "scrape:work", WorkInput(sw[p].title), now)
  /\ now' = now + 1
  /\ sw' = [sw EXCEPT ![p] = [@ EXCEPT !.pc = "running", !.jobId = Len(jobs) + 1]]
  /\ UNCHANGED <<works, editions, segments>> /\ UNCHANGED workRest

WorkCreateJobFail(p) ==
  /\ sw[p].pc = "create"
  /\ sw' = [sw EXCEPT ![p] = WorkThrow(@, "create_failed")]
  /\ UNCHANGED <<works, editions, segments, jobs, now>> /\ UNCHANGED workRest

\* updateJobStatus(jobId, 'running')
WorkRunningOk(p) ==
  /\ sw[p].pc = "running"
  /\ jobs' = UpdateJob(jobs, sw[p].jobId, "running", NoOutput, "", now)
  /\ now' = now + 1
  /\ sw' = [sw EXCEPT ![p] = [@ EXCEPT !.pc = "work_lookup"]]
  /\ UNCHANGED <<works, editions, segments>> /\ UNCHANGED workRest

WorkRunningFail(p) ==
  /\ sw[p].pc = "running"
  /\ sw' = [sw EXCEPT ![p] = WorkThrow(@, "status_write")]
  /\ UNCHANGED <<works, editions, segments, jobs, now>> /\ UNCHANGED workRest

\* loadTemplate throws: no such template
WorkTemplateFail(p) ==
  /\ sw[p].pc = "work_lookup"
  /\ sw' = [sw EXCEPT ![p] = WorkThrow(@, "template")]
  /\ UNCHANGED <<works, editions, segments, jobs, now>> /\ UNCHANGED workRest

\* upsertWork: the select by title returns the row
WorkLookupWorkHit(p) ==
  /\ sw[p].pc = "work_lookup"
  /\ \E w \in Single(WorksByTitle(sw[p].title)) :
       sw' = [sw EXCEPT ![p] = [@ EXCEPT !.pc = "edition_lookup", !.workId = w.id]]
  /\ UNCHANGED <<works, editions, segments, jobs, now>> /\ UNCHANGED workRest

\* upsertWork: the select yields no data: no row, several rows, or the query
\* failed (its error is not read)
WorkLookupWorkMiss(p) ==
  /\ sw[p].pc = "work_lookup"
  /\ sw' = [sw EXCEPT ![p] = [@ EXCEPT !.pc = "work_insert"]]
  /\ UNCHANGED <<works, editions, segments, jobs, now>> /\ UNCHANGED workRest

\* upsertWork: the insert
WorkInsertWorkOk(p) ==
  /\ sw[p].pc = "work_insert"
  /\ works' = works \cup { [id |-> NewRowId(works), title |-> sw[p].title] }
  /\ sw' = [sw EXCEPT ![p] = [@ EXCEPT !.pc = "edition_lookup",
                                       !.workId = NewRowId(works)]]
  /\ UNCHANGED <<editions, segments, jobs, now>> /\ UNCHANGED workRest

WorkInsertWorkFail(p) ==
  /\ sw[p].pc = "work_insert"
  /\ sw' = [sw EXCEPT ![p] = WorkThrow(@, "create_work")]
  /\ UNCHANGED <<works, editions, segments, jobs, now>> /\ UNCHANGED workRest

\* upsertEdition: the select by (work, media, provider, url) returns the row
WorkLookupEditionHit(p) ==
  /\ sw[p].pc = "edition_lookup"
  /\ \E e \in Single(EditionsLike(sw[p].workId)) :
       sw' = [sw EXCEPT ![p] = [@ EXCEPT !.pc = "fetch", !.editionId = e.id]]
  /\ UNCHANGED <<works, editions, segments, jobs, now>> /\ UNCHANGED workRest

\* upsertEdition: the select yields no data
WorkLookupEditionMiss(p) ==
  /\ sw[p].pc = "edition_lookup"
  /\ sw' = [sw EXCEPT ![p] = [@ EXCEPT !.pc = "edition_insert"]]
  /\ UNCHANGED <<works, editions, segments, jobs, now>> /\ UNCHANGED workRest

\* upsertEdition: the insert
WorkInsertEditionOk(p) ==
  /\ sw[p].pc = "edition_insert"
  /\ editions' = editions \cup
       { [id |-> NewRowId(editions), work_id |-> sw[p].workId,
          media_type |-> WorkMedia, provider |-> WorkProvider,
          canonical_url |-> WorkUrl] }
  /\ sw' = [sw EXCEPT ![p] = [@ EXCEPT !.pc = "fetch", !.editionId = NewRowId(editions)]]
  /\ UNCHANGED <<works, segments, jobs, now>> /\ UNCHANGED workRest

WorkInsertEditionFail(p) ==
  /\ sw[p].pc = "edition_insert"
  /\ sw' = [sw EXCEPT ![p] = WorkThrow(@, "create_edition")]
  /\ UNCHANGED <<works, editions, segments, jobs, now>> /\ UNCHANGED workRest

\* extractor.scrapeWork returns the segment list
WorkFetchOk(p) ==
  /\ sw[p].pc = "fetch"
  /\ \E us \in UnitLists :
       sw' = [sw EXCEPT ![p] = AtUnits([@ EXCEPT !.units = us, !.i = 0])]
  /\ UNCHANGED <<works, editions, segments, jobs, now>> /\ UNCHANGED workRest

WorkFetchFail(p) ==
  /\ sw[p].pc = "fetch"
  /\ sw' = [sw EXCEPT ![p] = WorkThrow(@, "fetch_failed")]
  /\ UNCHANGED <<works, editions, segments, jobs, now>> /\ UNCHANGED workRest

\* upsertSegment: the select by (edition, number) returns the row
WorkLookupSegmentHit(p) ==
  /\ sw[p].pc = "segment_lookup"
  /\ \E s \in Single(SegmentsAt(sw[p].editionId, sw[p].units[sw[p].i + 1])) :
       sw' = [sw EXCEPT ![p] = [@ EXCEPT !.pc = "segment_update", !.existing = s.id]]
  /\ UNCHANGED <<works, editions, segments, jobs, now>> /\ UNCHANGED workRest

\* upsertSegment: the select yields no data
WorkLookupSegmentMiss(p) ==
  /\ sw[p].pc = "segment_lookup"
  /\ sw' = [sw EXCEPT ![p] = [@ EXCEPT !.pc = "segment_insert"]]
  /\ UNCHANGED <<works, editions, segments, jobs, now>> /\ UNCHANGED workRest

\* upsertSegment: the update of title and url, its error never looked at
WorkUpdateSegment(p) ==
  /\ sw[p].pc = "segment_update"
  /\ \/ segments' = { IF s.id = sw[p].existing
                      THEN [s EXCEPT !.title = UnitTitle, !.canonical_url = UnitUrl]
                      ELSE s : s \in segments }
     \/ UNCHANGED segments
  /\ sw' = [sw EXCEPT ![p] = AtUnits([@ EXCEPT !.i = @ + 1, !.existing = NoId])]
  /\ UNCHANGED <<works, editions, jobs, now>> /\ UNCHANGED workRest

\* upsertSegment: the insert, segment_type 'chapter'; the table admits one row
\* per (edition_id, segment_type, number)
WorkInsertSegmentOk(p) ==
  /\ sw[p].pc = "segment_insert"
  /\ ~ \E s \in SegmentsAt(sw[p].editionId, sw[p].units[sw[p].i + 1]) :
         s.segment_type = "chapter"
  /\ segments' = segments \cup
       { [id |-> NewRowId(segments), edition_id |-> sw[p].editionId,
          segment_type |-> "chapter", number |-> sw[p].units[sw[p].i + 1],
          title |-> UnitTitle, canonical_url |-> UnitUrl] }
  /\ sw' = [sw EXCEPT ![p] = AtUnits([@ EXCEPT !.i = @ + 1])]
  /\ UNCHANGED <<works, editions, jobs, now>> /\ UNCHANGED workRest

WorkInsertSegmentFail(p) ==
  /\ sw[p].pc = "segment_insert"
  /\ sw' = [sw EXCEPT ![p] = WorkThrow(@, "create_segment")]
  /\ UNCHANGED <<works, editions, segments, jobs, now>> /\ UNCHANGED workRest

\* uploadToR2(r2Key, JSON.stringify(outputData), 'application/json')
WorkManifestOk(p) ==
  /\ sw[p].pc = "manifest"
  /\ r2' = PutObject(r2, WorkManifestKey(sw[p]), WorkManifestBody(sw[p]))
  /\ sw' = [sw EXCEPT ![p] = [@ EXCEPT !.pc = "mark_success"]]
  /\ UNCHANGED <<works, editions, segments, jobs, now>>
  /\ UNCHANGED <<assets, segment_assets, up, sg, cli, rn, isRunning, calls, bk,
                 da, ct>>

WorkManifestFail(p) ==
  /\ sw[p].pc = "manifest"
  /\ sw' = [sw EXCEPT ![p] = WorkThrow(@, "manifest_put")]
  /\ UNCHANGED <<works, editions, segments, jobs, now>> /\ UNCHANGED workRest

\* updateJobStatus(jobId, 'success', output)
WorkMarkSuccessOk(p) ==
  /\ sw[p].pc = "mark_success"
  /\ jobs' = UpdateJob(jobs, sw[p].jobId, "success", WorkOutputOf(sw[p]), "", now)
  /\ now' = now + 1
  /\ sw' = [sw EXCEPT ![p] = [@ EXCEPT !.pc = "returned"]]
  /\ UNCHANGED <<works, editions, segments>> /\ UNCHANGED workRest

WorkMarkSuccessFail(p) ==
  /\ sw[p].pc = "mark_success"
  /\ sw' = [sw EXCEPT ![p] = WorkThrow(@, "status_write")]
  /\ UNCHANGED <<works, editions, segments, jobs, now>> /\ UNCHANGED workRest

\* the catch block: updateJobStatus(jobId, 'failed', undefined, errorMessage)
WorkMarkFailedOk(p) ==
  /\ sw[p].pc = "mark_failed"
  /\ jobs' = UpdateJob(jobs, sw[p].jobId, "failed", NoOutput, sw[p].error, now)
  /\ now' = now + 1
  /\ sw' = [sw EXCEPT ![p] = [@ EXCEPT !.pc = "threw"]]
  /\ UNCHANGED <<works, editions, segments>> /\ UNCHANGED workRest

WorkMarkFailedFail(p) ==
  /\ sw[p].pc = "mark_failed"
  /\ sw' = [sw EXCEPT ![p] = [@ EXCEPT !.pc = "threw"]]
  /\ UNCHANGED <<works, editions, segments, jobs, now>> /\ UNCHANGED workRest

WorkStep(p) ==
  \/ WorkCreateJobOk(p)
  \/ WorkCreateJobFail(p)
  \/ WorkRunningOk(p)
  \/ WorkRunningFail(p)
  \/ WorkTemplateFail(p)
  \/ WorkLookupWorkHit(p)
  \/ WorkLookupWorkMiss(p)
  \/ WorkInsertWorkOk(p)
  \/ WorkInsertWorkFail(p)
  \/ WorkLookupEditionHit(p)
  \/ WorkLookupEditionMiss(p)
  \/ WorkInsertEditionOk(p)
  \/ WorkInsertEditionFail(p)
  \/ WorkFetchOk(p)
  \/ WorkFetchFail(p)
  \/ WorkLookupSegmentHit(p)
  \/ WorkLookupSegmentMiss(p)
  \/ WorkUpdateSegment(p)
  \/ WorkInsertSegmentOk(p)
  \/ WorkInsertSegmentFail(p)
  \/ WorkManifestOk(p)
  \/ WorkManifestFail(p)
  \/ WorkMarkSuccessOk(p)
  \/ WorkMarkSuccessFail(p)
  \/ WorkMarkFailedOk(p)
  \/ WorkMarkFailedFail(p)

-----------------------------------------------------------------------------
(* jobRunner.ts: polling of the queued jobs *)

\* the jobs a producer may have queued, with the input each kind carries: the
\* two kinds the runner dispatches and 'scrape', which it has no handler for;
\* the segment jobs are queued without the download option
QueuedJobs ==
  { [job_type |-> "scrape:work", input |-> WorkInput(t)] : t \in Titles }
  \cup { [job_type |-> "scrape:segment", input |-> SegmentInput(s, FALSE)] :
           s \in SegmentIds }
  \cup { [job_type |-> "scrape", input |-> SegmentInput(s, FALSE)] : s \in Segments }

NoInput == SegmentInput(NoId, FALSE)

\* order: the ids of the jobs processJob has dispatched so far, in order
IdleRunner ==
  [pc |-> "idle", once |-> FALSE, job |-> NoId, job_type |-> "", input |-> NoInput,
   marked |-> FALSE, order |-> <<>>]

runnerRest == <<r2, works, editions, segments, assets, segment_assets, up, cli, calls,
                bk, da, ct>>

\* getQueuedJobs(1): status queued, oldest created_at first
QueuedIds == { j \in 1..Len(jobs) : jobs[j].status = "queued" }

\* a getQueuedJobs that orders newest first
NewestQueued ==
  { j \in QueuedIds : \A k \in QueuedIds : jobs[j].created_at >= jobs[k].created_at }

OldestQueued ==
  { j \in QueuedIds : \A k \in QueuedIds : jobs[j].created_at <= jobs[k].created_at }

\* jobs:run: runJobRunner sets isRunning, runOnce goes straight to pollOnce
RunnerStart(p) ==
  /\ rn[p].pc = "idle"
  /\ \E once \in BOOLEAN :
       /\ rn' = [rn EXCEPT ![p] = [@ EXCEPT !.once = once,
                                            !.pc = IF once THEN "poll" ELSE "loop"]]
       /\ isRunning' = [isRunning EXCEPT ![p] = ~once]
  /\ UNCHANGED <<jobs, now, sg, sw>> /\ UNCHANGED runnerRest

\* SIGINT or SIGTERM: the handler clears isRunning
RunnerSignal(p) ==
  /\ isRunning[p]
  /\ isRunning' = [isRunning EXCEPT ![p] = FALSE]
  /\ UNCHANGED <<jobs, now, sg, sw, rn>> /\ UNCHANGED runnerRest

\* a loop that never reads the run flag
RunnerLoopIgnoreFlag(p) ==
  /\ rn[p].pc = "loop"
  /\ rn' = [rn EXCEPT ![p] = [@ EXCEPT !.pc = "poll"]]
  /\ UNCHANGED <<jobs, now, sg, sw, isRunning>> /\ UNCHANGED runnerRest

\* while (isRunning)
RunnerLoop(p) ==
  /\ rn[p].pc = "loop"
  /\ rn' = [rn EXCEPT ![p] = [@ EXCEPT !.pc = IF isRunning[p] THEN "poll" ELSE "stopped"]]
  /\ UNCHANGED <<jobs, now, sg, sw, isRunning>> /\ UNCHANGED runnerRest

\* pollOnce: getQueuedJobs(1) returns the oldest queued job
RunnerPollJob(p) ==
  /\ rn[p].pc = "poll"
  /\ \E j \in OldestQueued :
       rn' = [rn EXCEPT ![p] = [@ EXCEPT !.pc = "set_running", !.job = j,
                                         !.job_type = jobs[j].job_type,
                                         !.input = jobs[j].input, !.marked = FALSE]]
  /\ UNCHANGED <<jobs, now, sg, sw, isRunning>> /\ UNCHANGED runnerRest

\* pollOnce: nothing queued, returns false; the loop sleeps, runOnce returns
RunnerPollNone(p) ==
  /\ rn[p].pc = "poll"
  /\ QueuedIds = {}
  /\ rn' = [rn EXCEPT ![p] = [@ EXCEPT !.pc = IF rn[p].once THEN "exited" ELSE "sleep"]]
  /\ UNCHANGED <<jobs, now, sg, sw, isRunning>> /\ UNCHANGED runnerRest

\* a loop without the try around pollOnce: the exception ends the process
RunnerPollFailCrash(p) ==
  /\ rn[p].pc = "poll"
  /\ rn' = [rn EXCEPT ![p] = [@ EXCEPT !.pc = "crashed"]]
  /\ UNCHANGED <<jobs, now, sg, sw, isRunning>> /\ UNCHANGED runnerRest

\* getQueuedJobs throws: the loop logs and sleeps, jobs:run --once exits 1
RunnerPollFail(p) ==
  /\ rn[p].pc = "poll"
  /\ rn' = [rn EXCEPT ![p] = [@ EXCEPT !.pc = IF rn[p].once THEN "crashed" ELSE "sleep"]]
  /\ UNCHANGED <<jobs, now, sg, sw, isRunning>> /\ UNCHANGED runnerRest

\* a claim that goes through only while the row is still queued
RunnerSetRunningOkIfQueued(p) ==
  /\ rn[p].pc = "set_running"
  /\ jobs[rn[p].job].status = "queued"
  /\ jobs' = UpdateJob(jobs, rn[p].job, "running", NoOutput, "", now)
  /\ now' = now + 1
  /\ rn' = [rn EXCEPT ![p] = [@ EXCEPT !.pc = "dispatch", !.marked = TRUE]]
  /\ UNCHANGED <<sg, sw, isRunning>> /\ UNCHANGED runnerRest

\* processJob: updateJobStatus(job.id, 'running')
RunnerSetRunningOk(p) ==
  /\ rn[p].pc = "set_running"
  /\ jobs' = UpdateJob(jobs, rn[p].job, "running", NoOutput, "", now)
  /\ now' = now + 1
  /\ rn' = [rn EXCEPT ![p] = [@ EXCEPT !.pc = "dispatch", !.marked = TRUE]]
  /\ UNCHANGED <<sg, sw, isRunning>> /\ UNCHANGED runnerRest

\* the write throws: processJob's catch logs
RunnerSetRunningFail(p) ==
  /\ rn[p].pc = "set_running"
  /\ rn' = [rn EXCEPT ![p] = [@ EXCEPT !.pc = "processed"]]
  /\ UNCHANGED <<jobs, now, sg, sw, isRunning>> /\ UNCHANGED runnerRest

\* switch (job.job_type): scrapeWork(input)
RunnerDispatchWork(p) ==
  /\ rn[p].pc = "dispatch"
  /\ rn[p].job_type = "scrape:work"
  /\ StartScrapeWork(p, rn[p].input.title)
  /\ rn' = [rn EXCEPT ![p] = [@ EXCEPT !.pc = "handler",
                                       !.order = Append(@, rn[p].job)]]
  /\ UNCHANGED <<jobs, now, sg, isRunning>> /\ UNCHANGED runnerRest

\* switch (job.job_type): scrapeSegment(input)
RunnerDispatchSegment(p) ==
  /\ rn[p].pc = "dispatch"
  /\ rn[p].job_type = "scrape:segment"
  /\ StartScrapeSegment(p, rn[p].input.segmentId, rn[p].input.download)
  /\ rn' = [rn EXCEPT ![p] = [@ EXCEPT !.pc = "handler",
                                       !.order = Append(@, rn[p].job)]]
  /\ UNCHANGED <<jobs, now, sw, isRunning>> /\ UNCHANGED runnerRest

\* switch default: throw new Error('Unknown job type'), caught and logged
RunnerDispatchUnknown(p) ==
  /\ rn[p].pc = "dispatch"
  /\ rn[p].job_type \notin {"scrape:work", "scrape:segment"}
  /\ rn' = [rn EXCEPT ![p] = [@ EXCEPT !.pc = "processed",
                                       !.order = Append(@, rn[p].job)]]
  /\ UNCHANGED <<jobs, now, sg, sw, isRunning>> /\ UNCHANGED runnerRest

\* the handler returned or threw; processJob's catch logs and returns
RunnerHandlerDone(p) ==
  /\ rn[p].pc = "handler"
  /\ \/ /\ sg[p].pc \in {"returned", "threw"}
        /\ sg' = [sg EXCEPT ![p] = IdleSeg]
        /\ UNCHANGED sw
     \/ /\ sw[p].pc \in {"returned", "threw"}
        /\ sw' = [sw EXCEPT ![p] = IdleWork]
        /\ UNCHANGED sg
  /\ rn' = [rn EXCEPT ![p] = [@ EXCEPT !.pc = "processed"]]
  /\ UNCHANGED <<jobs, now, isRunning>> /\ UNCHANGED runnerRest

\* pollOnce returns true: the loop goes round without sleeping, runOnce returns
RunnerAfterProcess(p) ==
  /\ rn[p].pc = "processed"
  /\ rn' = [rn EXCEPT ![p] = [@ EXCEPT !.pc = IF rn[p].once THEN "exited" ELSE "loop"]]
  /\ UNCHANGED <<jobs, now, sg, sw, isRunning>> /\ UNCHANGED runnerRest

\* setTimeout(resolve, poll) fires
RunnerSleepDone(p) ==
  /\ rn[p].pc = "sleep"
  /\ rn' = [rn EXCEPT ![p] = [@ EXCEPT !.pc = "loop"]]
  /\ UNCHANGED <<jobs, now, sg, sw, isRunning>> /\ UNCHANGED runnerRest

RunnerStep(p) ==
  \/ RunnerStart(p)
  \/ RunnerSignal(p)
  \/ RunnerLoop(p)
  \/ RunnerPollJob(p)
  \/ RunnerPollNone(p)
  \/ RunnerPollFail(p)
  \/ RunnerSetRunningOk(p)
  \/ RunnerSetRunningFail(p)
  \/ RunnerDispatchWork(p)
  \/ RunnerDispatchSegment(p)
  \/ RunnerDispatchUnknown(p)
  \/ RunnerHandlerDone(p)
  \/ RunnerAfterProcess(p)
  \/ RunnerSleepDone(p)

-----------------------------------------------------------------------------
(* downloadAsset(url, retries): the retry wrapper of the remote fetch *)

\* the largest retry count a caller passes
MaxRetryArg == 3

\* URLs a caller may pass: one the remote serves, one that new URL() rejects
DownloadUrls == { ImageUrl(0), SubtitleUrl(0), TextUrl(0) }

NoError == [kind |-> "", attempt |-> -1]

\* the error thrown by attempt `attempt`: axios' for a failed request,
\* new URL()'s for a URL without a base
FetchError(attempt) == [kind |-> "request", attempt |-> attempt]
UrlError(attempt) == [kind |-> "invalid_url", attempt |-> attempt]
\* the trailing throw new Error('Failed to download asset after all retries')
ExhaustedError == [kind |-> "exhausted", attempt |-> -1]

\* Buffer.from(response.data) of the response to attempt `attempt`
ResponseBytes(url, attempt) == Append(RemoteBytes(url), attempt)

\* can new URL(url) parse it
ValidUrl(url) == url.absolute

IdleDownload ==
  [pc |-> "idle", url |-> ImageUrl(0), retries |-> 0, attempt |-> 0, fetches |-> 0,
   waits |-> <<>>, result |-> <<>>, error |-> NoError, n |-> 0,
   got |-> <<>>, caught |-> NoError]

\* Math.min(1000 * Math.pow(2, attempt), 8000), slept when attempt > 0
DownloadBackoff(attempt) == Min(1000 * Pow2(attempt), 8000)

\* for (attempt < retries), else the trailing throw
DownloadLoop(f) ==
  IF f.attempt < f.retries
  THEN [f EXCEPT !.pc = "attempt",
                 !.waits = IF f.attempt > 0
                           THEN Append(@, DownloadBackoff(f.attempt)) ELSE @]
  ELSE [f EXCEPT !.pc = "thrown", !.error = ExhaustedError]

\* a test that takes no attempt for the last one
isLastAttemptNever(attempt, retries) == attempt = retries

\* const isLastAttempt = attempt === retries - 1
isLastAttempt(attempt, retries) == attempt = retries - 1

\* the catch block: rethrow on the last attempt, else go round
DownloadCaught(f, err) ==
  IF isLastAttempt(f.attempt, f.retries)
  THEN [f EXCEPT !.pc = "thrown", !.error = err]
  ELSE DownloadLoop([f EXCEPT !.attempt = @ + 1])

downloadRest == <<r2, works, editions, segments, assets, segment_assets, jobs, now, up,
                  sg, cli, sw, rn, isRunning, calls, bk, ct>>

DownloadCall(p) ==
  /\ da[p].pc = "idle"
  /\ da[p].n < MaxCalls
  /\ \E url \in DownloadUrls, retries \in 0..MaxRetryArg :
       da' = [da EXCEPT ![p] =
                DownloadLoop([IdleDownload EXCEPT !.url = url, !.retries = retries,
                                                  !.n = da[p].n + 1,
                                                  !.got = da[p].got,
                                                  !.caught = da[p].caught])]
  /\ UNCHANGED downloadRest

\* new URL(url).origin throws before the request is made
DownloadBadUrl(p) ==
  /\ da[p].pc = "attempt"
  /\ ~ValidUrl(da[p].url)
  /\ da' = [da EXCEPT ![p] = DownloadCaught(@, UrlError(@.attempt))]
  /\ UNCHANGED downloadRest

\* axios.get answers: return Buffer.from(response.data)
DownloadFetchOk(p) ==
  /\ da[p].pc = "attempt"
  /\ ValidUrl(da[p].url)
  /\ da' = [da EXCEPT ![p] =
              [@ EXCEPT !.pc = "returned", !.fetches = @ + 1,
                        !.result = ResponseBytes(da[p].url, da[p].attempt)]]
  /\ UNCHANGED downloadRest

\* axios.get throws
DownloadFetchFail(p) ==
  /\ da[p].pc = "attempt"
  /\ ValidUrl(da[p].url)
  /\ da' = [da EXCEPT ![p] =
              DownloadCaught([@ EXCEPT !.fetches = @ + 1], FetchError(@.attempt))]
  /\ UNCHANGED downloadRest

\* the caller has the buffer (got) or the exception (caught)
DownloadReturn(p) ==
  /\ da[p].pc \in {"returned", "thrown"}
  /\ da' = [da EXCEPT ![p] = [IdleDownload EXCEPT !.n = da[p].n,
                                                  !.got = da[p].result,
                                                  !.caught = da[p].error]]
  /\ UNCHANGED downloadRest

DownloadStep(p) ==
  \/ DownloadCall(p)
  \/ DownloadBadUrl(p)
  \/ DownloadFetchOk(p)
  \/ DownloadFetchFail(p)
  \/ DownloadReturn(p)

-----------------------------------------------------------------------------
(* detectContentType(buffer, filename) *)

\* the bytes the four signatures are made of, and 0 for any other byte
HeadBytes == { 0, 56, 70, 71, 73, 78, 80, 82, 137, 216, 255 }

MaxHead == 4

\* the first bytes of a payload; a payload may be shorter than a signature
Heads == UNION { [1..n -> HeadBytes] : n \in 0..MaxHead }

\* what extname(filename) can give, "" for a name without a dot
Extensions ==
  { "", ".srt", ".SRT", ".vtt", ".ass", ".ssa", ".sub", ".json", ".txt",
    ".html", ".jpg", ".webp", ".bin" }

\* String.prototype.toLowerCase on the extensions above
toLowerCase(ext) == IF ext = ".SRT" THEN ".srt" ELSE ext

\* buffer[i] with the index counted from 0; past the end it is undefined, which
\* equals no byte: -1 here
ByteAt(buffer, i) == IF i + 1 <= Len(buffer) THEN buffer[i + 1] ELSE -1

\* the extension mapping alone
ContentTypeOfExt(ext) ==
  CASE ext = ".srt" -> "text/plain"
    [] ext = ".vtt" -> "text/vtt"
    [] ext \in {".ass", ".ssa"} -> "text/x-ssa"
    [] ext = ".sub" -> "text/plain"
    [] ext = ".json" -> "application/json"
    [] ext \in {".txt", ".html"} -> "text/plain"
    [] OTHER -> "application/octet-stream"

detectContentType(buffer, ext) ==
  IF ByteAt(buffer, 0) = 255 /\ ByteAt(buffer, 1) = 216 /\ ByteAt(buffer, 2) = 255
  THEN "image/jpeg"
  ELSE IF /\ ByteAt(buffer, 0) = 137 /\ ByteAt(buffer, 1) = 80
          /\ ByteAt(buffer, 2) = 78 /\ ByteAt(buffer, 3) = 71
  THEN "image/png"
  ELSE IF /\ ByteAt(buffer, 0) = 82 /\ ByteAt(buffer, 1) = 73
          /\ ByteAt(buffer, 2) = 70 /\ ByteAt(buffer, 3) = 70
  THEN "image/webp"
  ELSE IF ByteAt(buffer, 0) = 71 /\ ByteAt(buffer, 1) = 73 /\ ByteAt(buffer, 2) = 70
  THEN "image/gif"
  ELSE ContentTypeOfExt(toLowerCase(ext))

IdleDetect == [pc |-> "idle", buffer |-> <<>>, ext |-> "", result |-> ""]

detectRest == <<r2, works, editions, segments, assets, segment_assets, jobs, now, up,
                sg, cli, sw, rn, isRunning, calls, bk, da>>

\* a caller passes a payload and a file name
DetectCall ==
  /\ ct.pc = "idle"
  /\ \E buffer \in Heads, ext \in Extensions :
       ct' = [IdleDetect EXCEPT !.pc = "called", !.buffer = buffer, !.ext = ext]
  /\ UNCHANGED detectRest

DetectReturn ==
  /\ ct.pc = "called"
  /\ ct' = [ct EXCEPT !.pc = "returned",
                      !.result = detectContentType(ct.buffer, ct.ext)]
  /\ UNCHANGED detectRest

-----------------------------------------------------------------------------
(* bulkScrapeSegments: scrape:segment --download for the pending segments *)

\* ids a caller may pass as --editionId or --workId
BulkEditionIds == { 1, 7 }
BulkWorkIds == { 1, 9 }

IdleBulk ==
  [pc |-> "idle", editionId |-> NoId, workId |-> NoId, segs |-> <<>>,
   pending |-> <<>>, i |-> 0, successCount |-> 0, failureCount |-> 0,
   delays |-> 0, code |-> 0]

\* .order('number', { ascending: true }): the ids of the rows, by number
RECURSIVE ByNumber(_)
ByNumber(rows) ==
  IF rows = {} THEN <<>>
  ELSE LET first == CHOOSE s \in rows : \A t \in rows : s.number <= t.number
       IN <<first.id>> \o ByNumber(rows \ {first})

SegmentsOfEdition(editionId) == { s \in segments : s.edition_id = editionId }

\* segments of the edition with at least one segment_assets row
completedSegmentIds(editionId) ==
  { s.id : s \in { x \in SegmentsOfEdition(editionId) :
                     \E l \in segment_assets : l.segment_id = x.id } }

\* segments.filter(s => !completedSegmentIds.has(s.id))
pendingSegments(segs, completed) ==
  SelectSeq(segs, LAMBDA id : id \notin completed)

BulkExit(f, code) == [f EXCEPT !.pc = "exited", !.code = code]

bulkRest == <<r2, works, editions, segments, assets, segment_assets, jobs, now, up,
              sw, rn, isRunning, calls, da, ct>>

\* --editionId <id>
BulkStart(p) ==
  /\ bk[p].pc = "idle" /\ cli[p].pc = "idle" /\ sg[p].pc = "idle"
  /\ \E e \in BulkEditionIds :
       bk' = [bk EXCEPT ![p] = [IdleBulk EXCEPT !.pc = "list", !.editionId = e]]
  /\ UNCHANGED <<sg, cli>> /\ UNCHANGED bulkRest

\* --workId <id>
BulkStartByWork(p) ==
  /\ bk[p].pc = "idle" /\ cli[p].pc = "idle" /\ sg[p].pc = "idle"
  /\ \E w \in BulkWorkIds :
       bk' = [bk EXCEPT ![p] = [IdleBulk EXCEPT !.pc = "resolve", !.workId = w]]
  /\ UNCHANGED <<sg, cli>> /\ UNCHANGED bulkRest

\* the edition of the work: .eq('work_id', workId).single()
BulkResolveOk(p) ==
  /\ bk[p].pc = "resolve"
  /\ LET found == { e \in editions : e.work_id = bk[p].workId }
     IN /\ Cardinality(found) = 1
        /\ \E e \in found :
             bk' = [bk EXCEPT ![p] = [@ EXCEPT !.pc = "list", !.editionId = e.id]]
  /\ UNCHANGED <<sg, cli>> /\ UNCHANGED bulkRest

\* no single row, or the query failed: process.exit(1)
BulkResolveFail(p) ==
  /\ bk[p].pc = "resolve"
  /\ bk' = [bk EXCEPT ![p] = BulkExit(@, 1)]
  /\ UNCHANGED <<sg, cli>> /\ UNCHANGED bulkRest

\* the segments of the edition; none: process.exit(0)
BulkListOk(p) ==
  /\ bk[p].pc = "list"
  /\ LET segs == ByNumber(SegmentsOfEdition(bk[p].editionId))
     IN bk' = [bk EXCEPT ![p] =
                 IF segs = <<>> THEN BulkExit(@, 0)
                 ELSE [@ EXCEPT !.pc = "check", !.segs = segs]]
  /\ UNCHANGED <<sg, cli>> /\ UNCHANGED bulkRest

\* error fetching segments: process.exit(1)
BulkListFail(p) ==
  /\ bk[p].pc = "list"
  /\ bk' = [bk EXCEPT ![p] = BulkExit(@, 1)]
  /\ UNCHANGED <<sg, cli>> /\ UNCHANGED bulkRest

\* the loop head after the check: nothing pending is process.exit(0)
BulkPending(f, pending) ==
  IF pending = <<>> THEN BulkExit(f, 0)
  ELSE [f EXCEPT !.pc = "item", !.pending = pending, !.i = 0]

\* the query for segments with assets answers
BulkCheckOk(p) ==
  /\ bk[p].pc = "check"
  /\ bk' = [bk EXCEPT ![p] =
              BulkPending(@, pendingSegments(@.segs,
                                             completedSegmentIds(@.editionId)))]
  /\ UNCHANGED <<sg, cli>> /\ UNCHANGED bulkRest

\* the query fails: assetsError is printed, segmentsWithAssets is null and
\* completedSegmentIds is the empty set
BulkCheckFail(p) ==
  /\ bk[p].pc = "check"
  /\ bk' = [bk EXCEPT ![p] = BulkPending(@, pendingSegments(@.segs, {}))]
  /\ UNCHANGED <<sg, cli>> /\ UNCHANGED bulkRest

\* execSync of `cli.ts scrape:segment ... --download` for pendingSegments[i]
BulkInvoke(p) ==
  /\ bk[p].pc = "item"
  /\ cli[p].pc = "idle" /\ sg[p].pc = "idle" /\ up[p].pc = "idle"
  /\ StartScrapeSegment(p, bk[p].pending[bk[p].i + 1], TRUE)
  /\ cli' = [cli EXCEPT ![p] = [@ EXCEPT !.pc = "running"]]
  /\ bk' = [bk EXCEPT ![p] = [@ EXCEPT !.pc = "child"]]
  /\ UNCHANGED bulkRest

\* the end of the loop body: the counts, the delay between chapters
BulkNext(f, ok) ==
  LET last == f.i = Len(f.pending) - 1
      g == IF ok
           THEN [f EXCEPT !.successCount = @ + 1,
                          !.delays = IF last THEN @ ELSE @ + 1]
           ELSE [f EXCEPT !.failureCount = @ + 1]
  IN [g EXCEPT !.i = @ + 1, !.pc = IF last THEN "completed" ELSE "item"]

\* execSync returns, or throws on a non-zero exit code
BulkChildExit(p) ==
  /\ bk[p].pc = "child"
  /\ cli[p].pc = "exited"
  /\ bk' = [bk EXCEPT ![p] = BulkNext(@, cli[p].code = 0)]
  /\ cli' = [cli EXCEPT ![p] = IdleCli]
  /\ sg' = [sg EXCEPT ![p] = IdleSeg]
  /\ UNCHANGED bulkRest

BulkStep(p) ==
  \/ BulkStart(p)
  \/ BulkStartByWork(p)
  \/ BulkResolveOk(p)
  \/ BulkResolveFail(p)
  \/ BulkListOk(p)
  \/ BulkListFail(p)
  \/ BulkCheckOk(p)
  \/ BulkCheckFail(p)
  \/ BulkInvoke(p)
  \/ BulkChildExit(p)

-----------------------------------------------------------------------------
(* A caller that invokes the uploader directly, one call after the other *)

NoCalls == [n |-> 0, buffer |-> <<>>, r2Key |-> <<>>, kind |-> "image",
            segmentId |-> NoId, result |-> FALSE, threw |-> FALSE]

CallRecord(n, f, threw) ==
  [n |-> n, buffer |-> f.buffer, r2Key |-> f.r2Key, kind |-> f.kind,
   segmentId |-> f.segmentId, result |-> f.result, threw |-> threw]

DriverCall(p) ==
  /\ up[p].pc = "idle"
  /\ sg[p].pc = "idle"
  /\ calls[p].n < MaxCalls
  /\ \E buffer \in Payloads, key \in Keys, kind \in ItemKinds, s \in Segments :
       StartUpload(p, buffer, key, kind, s)
  /\ UNCHANGED <<r2, assets, segment_assets>> /\ UNCHANGED callerVars

DriverReturn(p) ==
  /\ up[p].pc \in {"done", "thrown"}
  /\ sg[p].pc = "idle"
  /\ calls' = [calls EXCEPT ![p] =
                 CallRecord(@.n + 1, up[p], up[p].pc = "thrown")]
  /\ up' = [up EXCEPT ![p] = IdleFrame]
  /\ UNCHANGED <<r2, assets, segment_assets>> /\ UNCHANGED ingestVars

-----------------------------------------------------------------------------

Init ==
  /\ r2 = <<>>
  /\ works = SeedWorks
  /\ editions = SeedEditions
  /\ segments = SeedSegments
  /\ assets = {}
  /\ segment_assets = {}
  /\ jobs = <<>>
  /\ now = 1
  /\ sg = [p \in Workers |-> IdleSeg]
  /\ cli = [p \in Workers |-> IdleCli]
  /\ up = [p \in Workers |-> IdleFrame]
  /\ calls = [p \in Workers |-> NoCalls]
  /\ sw = [p \in Workers |-> IdleWork]
  /\ rn = [p \in Workers |-> IdleRunner]
  /\ isRunning = [p \in Workers |-> FALSE]
  /\ bk = [p \in Workers |-> IdleBulk]
  /\ da = [p \in Workers |-> IdleDownload]
  /\ ct = IdleDetect

\* the ledger and the store after an earlier scrape:segment --download of seg1
\* that found one image and stored it: job 1 ended success
IngestedSegment == [id |-> 1, edition_id |-> 1, segment_type |-> "chapter", number |-> 5]
IngestedEdition == [id |-> 1, work_id |-> 1, media_type |-> "novel"]
IngestedKey == ItemKey(IngestedEdition, IngestedSegment, ImageUrl(0), 0, "image")

IngestedBytes == RemoteBytes(ImageUrl(0))

InitIngested ==
  /\ r2 = PutObject(
            PutObject(<<>>,
                      ManifestKey([IdleSeg EXCEPT !.segment = IngestedSegment,
                                                  !.edition = IngestedEdition]),
                      ManifestBody([IdleSeg EXCEPT !.nImages = 1])),
            IngestedKey, IngestedBytes)
  /\ works = SeedWorks
  /\ editions = SeedEditions
  /\ segments = SeedSegments
  /\ assets = { AssetRow(1, IngestedKey, "raw_image",
                         computeFileHash(IngestedBytes).bytes,
                         computeFileHash(IngestedBytes).sha256) }
  /\ segment_assets = UpsertLink({}, 1, 1, "page")
  /\ jobs = UpdateJob(UpdateJob(InsertJob(<<>>, "scrape", SegmentInput(1, TRUE), 1),
                                1, "running", NoOutput, "", 2),
                      1, "success",
                      OutputOf([IdleSeg EXCEPT !.nImages = 1, !.successCount = 1,
                                               !.uploadedAssets = 1]), "", 3)
  /\ now = 4
  /\ up = [p \in Workers |-> IdleFrame]
  /\ sg = [p \in Workers |-> IdleSeg]
  /\ cli = [p \in Workers |-> IdleCli]
  /\ calls = [p \in Workers |-> NoCalls]
  /\ sw = [p \in Workers |-> IdleWork]
  /\ rn = [p \in Workers |-> IdleRunner]
  /\ isRunning = [p \in Workers |-> FALSE]
  /\ bk = [p \in Workers |-> IdleBulk]
  /\ da = [p \in Workers |-> IdleDownload]
  /\ ct = IdleDetect

\* the ledger and the store after an earlier scrape:segment --download of seg1
\* that found two images, stored the first and failed on the second: job 1
\* ended success with successCount 1 and failedCount 1
FailedKey == ItemKey(IngestedEdition, IngestedSegment, ImageUrl(1), 1, "image")

InitPartly ==
  /\ r2 = PutObject(
            PutObject(<<>>,
                      ManifestKey([IdleSeg EXCEPT !.segment = IngestedSegment,
                                                  !.edition = IngestedEdition]),
                      ManifestBody([IdleSeg EXCEPT !.nImages = 2])),
            IngestedKey, IngestedBytes)
  /\ works = SeedWorks
  /\ editions = SeedEditions
  /\ segments = SeedSegments
  /\ assets = { AssetRow(1, IngestedKey, "raw_image",
                         computeFileHash(IngestedBytes).bytes,
                         computeFileHash(IngestedBytes).sha256) }
  /\ segment_assets = UpsertLink({}, 1, 1, "page")
  /\ jobs = UpdateJob(UpdateJob(InsertJob(<<>>, "scrape", SegmentInput(1, TRUE), 1),
                                1, "running", NoOutput, "", 2),
                      1, "success",
                      OutputOf([IdleSeg EXCEPT !.nImages = 2, !.successCount = 1,
                                               !.failedCount = 1,
                                               !.uploadedAssets = 1]), "", 3)
  /\ now = 4
  /\ up = [p \in Workers |-> IdleFrame]
  /\ sg = [p \in Workers |-> IdleSeg]
  /\ cli = [p \in Workers |-> IdleCli]
  /\ calls = [p \in Workers |-> NoCalls]
  /\ sw = [p \in Workers |-> IdleWork]
  /\ rn = [p \in Workers |-> IdleRunner]
  /\ isRunning = [p \in Workers |-> FALSE]
  /\ bk = [p \in Workers |-> IdleBulk]
  /\ da = [p \in Workers |-> IdleDownload]
  /\ ct = IdleDetect


\* the jobs table a producer left: up to MaxQueued queued rows, oldest first
Queues == UNION { [1..n -> QueuedJobs] : n \in 1..MaxQueued }
QueueRows(q) == [j \in 1..Len(q) |-> JobRow(q[j].job_type, q[j].input, j)]

InitQueued ==
  /\ r2 = <<>>
  /\ works = SeedWorks
  /\ editions = SeedEditions
  /\ segments = SeedSegments
  /\ assets = {}
  /\ segment_assets = {}
  /\ \E q \in Queues : jobs = QueueRows(q) /\ now = Len(q) + 1
  /\ up = [p \in Workers |-> IdleFrame]
  /\ sg = [p \in Workers |-> IdleSeg]
  /\ cli = [p \in Workers |-> IdleCli]
  /\ calls = [p \in Workers |-> NoCalls]
  /\ sw = [p \in Workers |-> IdleWork]
  /\ rn = [p \in Workers |-> IdleRunner]
  /\ isRunning = [p \in Workers |-> FALSE]
  /\ bk = [p \in Workers |-> IdleBulk]
  /\ da = [p \in Workers |-> IdleDownload]
  /\ ct = IdleDetect

UploaderStep(p) ==
  \/ UploadPutOk(p)
  \/ UploadPutFail(p)
  \/ UploadLookupHit(p)
  \/ UploadLookupMiss(p)
  \/ UploadInsertOk(p)
  \/ UploadInsertFail(p)
  \/ UploadAttachOk(p)
  \/ UploadAttachFail(p)

NextUpload ==
  \E p \in Solo : DriverCall(p) \/ UploaderStep(p) \/ DriverReturn(p)

\* one worker calling uploadAndRegisterAsset repeatedly
SpecUpload == Init /\ [][NextUpload]_vars

NextSegment ==
  \E p \in Solo :
    CliScrapeSegment(p) \/ SegmentStep(p) \/ UploaderStep(p) \/ CliExit(p)

\* one scrape:segment command, on a ledger that holds the catalog only or on
\* one that went through an earlier ingestion of seg1
SpecSegment == (Init \/ InitIngested) /\ [][NextSegment]_vars

NextDownload == \E p \in Solo : DownloadStep(p)

\* direct calls of downloadAsset with any retry count up to MaxRetryArg
SpecDownload == Init /\ [][NextDownload]_vars

NextDetect == DetectCall \/ DetectReturn

\* calls of detectContentType on every payload head and extension
SpecDetect == Init /\ [][NextDetect]_vars

NextBulk ==
  \E p \in Solo :
    BulkStep(p) \/ SegmentStep(p) \/ UploaderStep(p) \/ CliExit(p)

\* one run of the bulk script, on a ledger that holds the catalog only or on
\* one whose segment 1 was ingested before
SpecBulk == (Init \/ InitIngested) /\ [][NextBulk]_vars

\* one run of the bulk script on a ledger whose segment 1 was ingested in part
SpecRerun == InitPartly /\ [][NextBulk]_vars

\* a worker starts processing the item another worker is processing, or has
\* processed, too: the same bytes, key, kind and segment
DuplicateCall(p) ==
  /\ up[p].pc = "idle"
  /\ sg[p].pc = "idle"
  /\ \E buffer \in Payloads, key \in Keys, kind \in ItemKinds, s \in Segments :
       /\ \A q \in Workers \ {p} :
            up[q].pc # "idle" =>
              /\ up[q].buffer = buffer /\ up[q].r2Key = key
              /\ up[q].kind = kind /\ up[q].segmentId = s
       /\ StartUpload(p, buffer, key, kind, s)
  /\ UNCHANGED <<r2, assets, segment_assets>> /\ UNCHANGED callerVars

NextDuplicate ==
  \E p \in Workers : DuplicateCall(p) \/ UploaderStep(p)

\* two workers, each calling uploadAndRegisterAsset once for the same item
SpecDuplicate == Init /\ [][NextDuplicate]_vars

NextRunner ==
  \E p \in Solo :
    RunnerStep(p) \/ WorkStep(p) \/ SegmentCoreStep(p)

\* one jobs:run process on a queue a producer filled
SpecRunner == InitQueued /\ [][NextRunner]_vars

\* jobs a producer has queued at distinct times before the runner polls
QueueLen == 3

\* the kinds of job in that queue
PollJobs ==
  { [job_type |-> "scrape:work", input |-> WorkInput("title")],
    [job_type |-> "scrape:segment", input |-> SegmentInput(1, FALSE)],
    [job_type |-> "scrape:segment", input |-> SegmentInput(2, FALSE)],
    [job_type |-> "scrape", input |-> SegmentInput(1, FALSE)] }

InitPolling ==
  /\ r2 = <<>>
  /\ works = SeedWorks
  /\ editions = SeedEditions
  /\ segments = SeedSegments
  /\ assets = {}
  /\ segment_assets = {}
  /\ \E q \in [1..QueueLen -> PollJobs] : jobs = QueueRows(q) /\ now = Len(q) + 1
  /\ up = [p \in Workers |-> IdleFrame]
  /\ sg = [p \in Workers |-> IdleSeg]
  /\ cli = [p \in Workers |-> IdleCli]
  /\ calls = [p \in Workers |-> NoCalls]
  /\ sw = [p \in Workers |-> IdleWork]
  /\ rn = [p \in Workers |-> IdleRunner]
  /\ isRunning = [p \in Workers |-> FALSE]
  /\ bk = [p \in Workers |-> IdleBulk]
  /\ da = [p \in Workers |-> IdleDownload]
  /\ ct = IdleDetect

\* the queue two runners find: one queued scrape:segment job, for the segment
\* whose edition is missing
ContendedJobs ==
  { [job_type |-> "scrape:segment", input |-> SegmentInput(2, FALSE)] }

InitContended ==
  /\ r2 = <<>>
  /\ works = SeedWorks
  /\ editions = SeedEditions
  /\ segments = SeedSegments
  /\ assets = {}
  /\ segment_assets = {}
  /\ \E j \in ContendedJobs : jobs = QueueRows(<<j>>)
  /\ now = 2
  /\ up = [p \in Workers |-> IdleFrame]
  /\ sg = [p \in Workers |-> IdleSeg]
  /\ cli = [p \in Workers |-> IdleCli]
  /\ calls = [p \in Workers |-> NoCalls]
  /\ sw = [p \in Workers |-> IdleWork]
  /\ rn = [p \in Workers |-> IdleRunner]
  /\ isRunning = [p \in Workers |-> FALSE]
  /\ bk = [p \in Workers |-> IdleBulk]
  /\ da = [p \in Workers |-> IdleDownload]
  /\ ct = IdleDetect

\* the steps of a runner on a ledger that holds no scrape:work job
RunnerSegmentStep(p) ==
  \/ RunnerStart(p)
  \/ RunnerSignal(p)
  \/ RunnerLoop(p)
  \/ RunnerPollJob(p)
  \/ RunnerPollNone(p)
  \/ RunnerPollFail(p)
  \/ RunnerSetRunningOk(p)
  \/ RunnerSetRunningFail(p)
  \/ RunnerDispatchSegment(p)
  \/ RunnerDispatchUnknown(p)
  \/ RunnerHandlerDone(p)
  \/ RunnerAfterProcess(p)
  \/ RunnerSleepDone(p)

\* the steps of scrapeSegment for a segment that is not found
SegmentLookupStep(p) ==
  \/ SegCreateJobOk(p)
  \/ SegCreateJobFail(p)
  \/ SegRunningOk(p)
  \/ SegRunningFail(p)
  \/ SegGetSegmentNull(p)
  \/ SegGetSegmentNoEdition(p)
  \/ SegMarkFailedOk(p)
  \/ SegMarkFailedFail(p)

NextContended ==
  \E p \in Workers : RunnerSegmentStep(p) \/ SegmentLookupStep(p)

\* two jobs:run processes polling the same ledger
SpecContended == InitContended /\ [][NextContended]_vars

\* one jobs:run process on a queue of QueueLen jobs queued one after the other
SpecPolling == InitPolling /\ [][NextRunner]_vars

\* the same, with the event loop running whatever step is pending
SpecPollingLive == SpecPolling /\ WF_vars(NextRunner)

-----------------------------------------------------------------------------
(* Claims about the Asset Uploader, checked under SpecUpload *)

\* the call of worker p that has just returned repeats the previous call's
\* arguments, and both returned true
TwoEqualSuccessfulCalls(p) ==
  /\ up[p].pc = "done" /\ up[p].result
  /\ calls[p].n >= 1 /\ calls[p].result /\ ~calls[p].threw
  /\ calls[p].buffer = up[p].buffer /\ calls[p].r2Key = up[p].r2Key
  /\ calls[p].kind = up[p].kind /\ calls[p].segmentId = up[p].segmentId

\* C1: after two successive successful calls with the same (bytes, key,
\* segment, role) there is exactly one Asset row with the key and exactly one
\* SegmentAsset row for the (segment, asset) pair.
C1_IdempotentUpload ==
  \A p \in Solo :
    TwoEqualSuccessfulCalls(p) =>
      /\ Cardinality(AssetsByKey(up[p].r2Key)) = 1
      /\ \A a \in AssetsByKey(up[p].r2Key) :
           Cardinality(LinksOf(up[p].segmentId, a.id)) = 1

\* C2: whenever the uploader returns true the blob is in the store under the
\* key, an Asset row with the key exists, and a SegmentAsset row links that
\* Asset to the segment.
C2_SuccessMeansAllThree ==
  \A p \in Solo :
    (up[p].pc = "done" /\ up[p].result) =>
      /\ StoreHas(up[p].r2Key)
      /\ \E a \in AssetsByKey(up[p].r2Key) : LinksOf(up[p].segmentId, a.id) # {}

C4_NoOrphanNoDuplicate ==
  \A p \in Solo :
    up[p].pc = "done" =>
      /\ StoreHas(up[p].r2Key) => AssetsByKey(up[p].r2Key) # {}
      /\ Cardinality(AssetsByKey(up[p].r2Key)) <= 1

\* C5: the uploader never throws; it makes at most Retries attempts and
\* returns false, as a value, only from the last of them.
C5_NeverThrows ==
  \A p \in Solo :
    /\ up[p].pc # "thrown" /\ ~calls[p].threw
    /\ up[p].attempt < Retries
    /\ (up[p].pc = "done" /\ ~up[p].result) => up[p].attempt = Retries - 1
    /\ (up[p].pc = "done" /\ up[p].result) => up[p].assetId # NoId

\* the put failed on each of the five attempts and the call returned false
C5_Witness ==
  \E p \in Solo :
    /\ up[p].pc = "done" /\ ~up[p].result /\ ~up[p].uploadedToR2
    /\ up[p].attempt = Retries - 1 /\ Len(up[p].waits) = Retries - 1


-----------------------------------------------------------------------------
(* Claims about scrapeSegment, checked under SpecSegment *)

\* a run with download set that got through the image loop and whose writes
\* to the jobs table were all accepted has ended
BatchEnded(p) ==
  /\ sg[p].pc \in {"returned", "threw"}
  /\ sg[p].download /\ sg[p].imagesDone /\ ~sg[p].writeFailed

\* C6: for an ingestion with download over N image items the final counts
\* satisfy successCount + failedCount = N, the job is success when
\* successCount > 0 or N = 0, and failed only when successCount = 0 and N > 0.
C6_BatchAccounting ==
  \A p \in Solo :
    BatchEnded(p) =>
      LET f == sg[p]
          job == jobs[f.jobId]
      IN /\ f.successCount + f.failedCount = f.nImages
         /\ job.status \in {"success", "failed"}
         /\ job.status = "success" =>
              job.output.successCount + job.output.failedCount = f.nImages
         /\ (f.successCount > 0 \/ f.nImages = 0) => job.status = "success"
         /\ job.status = "failed" => (f.successCount = 0 /\ f.nImages > 0)

\* the storage key of the j-th image item of worker p's run
ImageKeyOf(p, j) == ItemKey(sg[p].edition, sg[p].segment, ImageUrl(j - 1), j - 1, "image")

\* C7: on a store and ledger with no assets before the run, an image item
\* whose fetch fails on every attempt is counted in failedCount and leaves no
\* blob and no Asset or SegmentAsset row for its key; the loop still goes
\* through every item, and each item counted successful has its key in the
\* store with one Asset row and one SegmentAsset row.
C7_FetchFailureIsolated ==
  \A p \in Solo :
    (sg[p].download /\ sg[p].imagesDone /\ sg[p].jobId = 1) =>
      LET f == sg[p] IN
        /\ Len(f.outcomes) = f.nImages
        /\ f.failedCount = Cardinality({ j \in 1..f.nImages : f.outcomes[j] # "ok" })
        /\ f.successCount = Cardinality({ j \in 1..f.nImages : f.outcomes[j] = "ok" })
        /\ \A j \in 1..f.nImages :
             /\ f.outcomes[j] = "fetch_failed" =>
                  /\ ~StoreHas(ImageKeyOf(p, j))
                  /\ AssetsByKey(ImageKeyOf(p, j)) = {}
             /\ f.outcomes[j] = "ok" =>
                  /\ StoreHas(ImageKeyOf(p, j))
                  /\ Cardinality(AssetsByKey(ImageKeyOf(p, j))) = 1
                  /\ \A a \in AssetsByKey(ImageKeyOf(p, j)) :
                       Cardinality(LinksOf(f.segmentId, a.id)) = 1

-----------------------------------------------------------------------------
(* Claims about the jobs table, checked under SpecRunner *)

\* C8: a job's status only moves queued -> running -> success or failed:
\* never from queued to a terminal status, never back from a terminal status,
\* never from one terminal status to the other.
C8_StatusMachine ==
  [][\A j \in 1..Len(jobs) :
       \/ jobs'[j].status = jobs[j].status
       \/ jobs[j].status = "queued" /\ jobs'[j].status = "running"
       \/ jobs[j].status = "running" /\ jobs'[j].status \in {"success", "failed"}]_vars

\* C9: a queued job the runner picked up and moved to running has reached
\* success or failed when processJob is through with it, a job of unknown
\* kind included.
C9_PolledJobFinishes ==
  \A p \in Solo :
    (rn[p].pc = "processed" /\ rn[p].marked) =>
      jobs[rn[p].job].status \in {"success", "failed"}

\* C10: each transition of a job to running adds one to its attempt counter
\* and stamps its start time.
C10_RunningCountsAttempt ==
  [][\A j \in 1..Len(jobs) :
       (jobs[j].status # "running" /\ jobs'[j].status = "running") =>
         /\ jobs'[j].attempt = jobs[j].attempt + 1
         /\ jobs'[j].started_at # NoTime]_vars


\* C11: each terminal transition stamps the job's finish time; a job marked
\* failed carries a non-empty error and no output, a job marked success
\* carries its output and no error.
C11_TerminalStamps ==
  [][\A j \in 1..Len(jobs) :
       (jobs'[j].status # jobs[j].status /\ jobs'[j].status \in {"success", "failed"}) =>
         /\ jobs'[j].finished_at = now
         /\ jobs'[j].status = "failed" =>
              (jobs'[j].error # "" /\ ~jobs'[j].output.present)
         /\ jobs'[j].status = "success" =>
              (jobs'[j].output.present /\ jobs'[j].error = "")]_vars

\* a ledger holding a job that ended success and one that ended failed
C11_Witness ==
  /\ \E j \in 1..Len(jobs) :
       /\ jobs[j].status = "success" /\ jobs[j].output.present
       /\ jobs[j].finished_at # NoTime
  /\ \E j \in 1..Len(jobs) :
       /\ jobs[j].status = "failed" /\ jobs[j].error # ""
       /\ jobs[j].finished_at # NoTime


-----------------------------------------------------------------------------
(* Claims about the Job Runner, checked under SpecPolling *)

\* C12: jobs queued at times t1 < t2 < t3 are dispatched by repeated pollOnce
\* calls in that order, and a job is never dispatched while an older job is
\* still queued.
C12_FifoDispatch ==
  \A p \in Solo :
    /\ \A a, b \in 1..Len(rn[p].order) :
         a < b => jobs[rn[p].order[a]].created_at < jobs[rn[p].order[b]].created_at
    /\ rn[p].pc \in {"set_running", "dispatch"} =>
         \A k \in QueuedIds :
           k # rn[p].job => jobs[k].created_at > jobs[rn[p].job].created_at

\* the three jobs queued at the start have been dispatched, oldest first
C12_Witness ==
  \E p \in Solo :
    /\ Len(rn[p].order) >= 3
    /\ rn[p].order[1] = 1 /\ rn[p].order[2] = 2 /\ rn[p].order[3] = 3


\* C13: in continuous mode neither a handler's exception nor a failure of
\* pollOnce ends runJobRunner; after a failed poll and after a poll that found
\* no job the runner sleeps and then polls again; the loop ends only with the
\* run flag cleared.
C13_LoopSurvives ==
  [][\A p \in Solo :
       (~rn[p].once /\ rn[p].pc # "idle") =>
         /\ rn'[p].pc # "crashed"
         /\ rn'[p].pc = "stopped" => ~isRunning[p]
         /\ rn[p].pc = "poll" => rn'[p].pc \in {"poll", "set_running", "sleep"}
         /\ rn[p].pc = "sleep" => rn'[p].pc \in {"sleep", "loop"}
         /\ rn[p].pc = "handler" => rn'[p].pc \in {"handler", "processed"}
         /\ rn[p].pc = "processed" => rn'[p].pc \in {"processed", "loop"}
         /\ (rn[p].pc = "loop" /\ isRunning[p]) => rn'[p].pc \in {"loop", "poll"}]_vars

\* the continuous runner polls again after a job whose handler threw
C13_Witness ==
  \E p \in Solo :
    /\ ~rn[p].once /\ rn[p].pc = "poll" /\ isRunning[p]
    /\ \E j \in 1..Len(jobs) : jobs[j].status = "failed"


\* the run flag of the continuous runner p has been cleared by a signal
FlagCleared(p) == ~rn[p].once /\ rn[p].pc # "idle" /\ ~isRunning[p]

\* C14: after a signal clears the run flag the job in flight is processed to
\* the end of its handler, no further pollOnce is started, and runJobRunner
\* returns.
C14_GracefulShutdown ==
  /\ [][\A p \in Solo :
          FlagCleared(p) =>
            /\ rn'[p].pc = "poll" => rn[p].pc = "poll"
            /\ rn[p].pc = "handler" => rn'[p].pc \in {"handler", "processed"}
            /\ (rn[p].pc = "handler" /\ rn'[p].pc = "processed") =>
                 \/ sg[p].pc \in {"returned", "threw"}
                 \/ sw[p].pc \in {"returned", "threw"}
            /\ (sg[p].pc \notin {"idle", "returned", "threw"}) => sg'[p].pc # "idle"
            /\ (sw[p].pc \notin {"idle", "returned", "threw"}) => sw'[p].pc # "idle"]_vars
  /\ \A p \in Solo : FlagCleared(p) ~> (rn[p].pc = "stopped")

\* the flag is cleared while a handler is at work on a job
C14_Witness ==
  \E p \in Solo :
    /\ FlagCleared(p) /\ rn[p].pc = "handler"
    /\ \/ sg[p].pc \in {"get_segment", "fetch", "manifest"}
       \/ sw[p].pc \in {"work_lookup", "fetch", "manifest"}


-----------------------------------------------------------------------------
(* Claims about concurrent workers, checked under SpecDuplicate *)

\* both workers' calls for the same item have returned true
BothReturnedTrue ==
  \A p \in Workers : up[p].pc = "done" /\ up[p].result

\* C15: when two workers run uploadAndRegisterAsset concurrently for the same
\* (bytes, key, segment, role), under every interleaving the ledger ends with
\* exactly one Asset row for the key and exactly one SegmentAsset row for the
\* (segment, asset) pair.
C15_DuplicatesConverge ==
  BothReturnedTrue =>
    \A p \in Workers :
      /\ StoreHas(up[p].r2Key)
      /\ Cardinality(AssetsByKey(up[p].r2Key)) = 1
      /\ \A a \in AssetsByKey(up[p].r2Key) :
           Cardinality(LinksOf(up[p].segmentId, a.id)) = 1


\* C16: a duplicate-key conflict on inserting an Asset row (another writer
\* created the row between the lookup and the insert) is resolved by returning
\* the existing row's id and is not surfaced as an error: the attempt goes on
\* to the attach with that id.
C16_ConflictResolved ==
  [][\A p \in Workers :
       (up[p].pc = "insert" /\ AssetsByKey(up[p].r2Key) # {} /\ up'[p] # up[p]) =>
         /\ up'[p].pc = "attach"
         /\ up'[p].attempt = up[p].attempt
         /\ \E a \in AssetsByKey(up[p].r2Key) : up'[p].assetId = a.id]_vars


-----------------------------------------------------------------------------
(* Claims about the catalog tables, checked under SpecRunner *)

\* no two rows of the table share (edition, segment kind, ordinal)
SegmentsUnique(tbl) ==
  \A a, b \in tbl :
    (a.edition_id = b.edition_id /\ a.segment_type = b.segment_type
       /\ a.number = b.number) => a = b

\* worker p is inside upsertSegment for a segment whose row exists
UpsertOfExisting(p) ==
  /\ sw[p].pc \in {"segment_lookup", "segment_update", "segment_insert"}
  /\ SegmentsAt(sw[p].editionId, sw[p].units[sw[p].i + 1]) # {}

\* C17: at most one Segment row exists per (edition, segment kind, ordinal);
\* an upsert of a segment whose (edition, segment kind, ordinal) exists updates
\* that row's title and URL and never adds a second row.
C17_SegmentUpsert ==
  [][/\ SegmentsUnique(segments')
     /\ \A p \in Solo :
          (UpsertOfExisting(p) /\ sw'[p] # sw[p]) =>
            /\ Cardinality(segments') = Cardinality(segments)
            /\ sw'[p].pc \notin {"mark_failed", "threw"}
            /\ sw[p].pc = "segment_update" =>
                 \A s \in SegmentsAt(sw[p].editionId, sw[p].units[sw[p].i + 1]) :
                   [s EXCEPT !.title = UnitTitle, !.canonical_url = UnitUrl]
                     \in segments']_vars

-----------------------------------------------------------------------------
(* Claims about the assets ledger, checked under SpecUpload *)

\* the asset row whose id insertAsset handed to the uploader
RegisteredRow(p) == { a \in assets : a.id = up[p].assetId }

\* two calls of one caller that both returned true, for the same bytes
\* under two different keys
SameBytesTwoKeys(p) ==
  /\ calls[p].n >= 1 /\ calls[p].result
  /\ up[p].pc = "done" /\ up[p].result
  /\ calls[p].buffer = up[p].buffer
  /\ calls[p].r2Key # up[p].r2Key

\* C18: the storage key, not the digest, identifies an asset: no two asset
\* rows share a key, the row registered for an upload is the row of that
\* upload's key, and identical bytes registered under two distinct keys are
\* recorded by two rows
C18_KeyIdentifiesAsset ==
  /\ \A a, b \in assets : a.r2_key = b.r2_key => a = b
  /\ \A p \in Solo :
       (up[p].pc = "attach" \/ (up[p].pc = "done" /\ up[p].result))
         => \E a \in RegisteredRow(p) : a.r2_key = up[p].r2Key
  /\ \A p \in Solo :
       SameBytesTwoKeys(p)
         => \E a \in AssetsByKey(calls[p].r2Key), b \in AssetsByKey(up[p].r2Key) :
              a.id # b.id

\* the same bytes under two keys: two rows that carry the same digest
C18_Witness ==
  \E p \in Solo :
    /\ SameBytesTwoKeys(p)
    /\ \E a \in AssetsByKey(calls[p].r2Key), b \in AssetsByKey(up[p].r2Key) :
         a.id # b.id /\ a.sha256 = b.sha256

\* C19: attaching an already attached (segment, asset) pair is a silent
\* no-op: the step adds no row, leaves the pair's row and its role as they
\* were, and the upload ends with true, not with an error
C19_AttachIsNoOp ==
  [][\A p \in Solo :
       (up[p].pc = "attach" /\ LinksOf(up[p].segmentId, up[p].assetId) # {})
         => /\ segment_assets' = segment_assets
            /\ up'[p] # up[p] => (up'[p].pc = "done" /\ up'[p].result)]_vars

\* an upload that ended after attaching a pair whose row carries another role
C19_Witness ==
  \E p \in Solo :
    /\ up[p].pc = "done" /\ up[p].result
    /\ \E l \in LinksOf(up[p].segmentId, up[p].assetId) :
         l.role # RoleOf(up[p].kind)
    /\ Cardinality(segment_assets) = 1

-----------------------------------------------------------------------------
(* Claims about the manifest of scrapeSegment, checked under SpecSegment *)

\* positions of scrapeSegment behind the upload of the manifest
PastManifest == {"download", "upload", "text_item", "mark_success", "returned"}

\* positions inside the three loops
ItemPositions == {"download", "upload", "text_item"}

ManifestStored(p) ==
  /\ StoreHas(ManifestKey(sg[p]))
  /\ r2[ManifestKey(sg[p])] = ManifestBody(sg[p])

\* a step of a run without download: no payload is fetched, the uploader is
\* not called, no asset or link row is written, and the only object put is
\* the manifest; a manifest put that went through is followed by the write
\* of success
NoDownloadFrame(p) ==
  (~sg[p].download /\ sg[p].pc # "idle") =>
    /\ assets' = assets
    /\ segment_assets' = segment_assets
    /\ up'[p] = up[p]
    /\ sg'[p].pc \notin ItemPositions
    /\ \/ r2' = r2
       \/ /\ sg[p].pc = "manifest"
          /\ r2' = PutObject(r2, ManifestKey(sg[p]), ManifestBody(sg[p]))
    /\ (sg[p].pc = "manifest" /\ sg'[p] # sg[p] /\ sg'[p].error = "")
         => sg'[p].pc = "mark_success"

\* C20: every run of scrapeSegment that got the payload lists and went on has
\* the manifest of these lists in the store, with download set or not; a run
\* without download fetches no payload, writes no object but the manifest and
\* no asset or link row, and when it returns its job is success
C20_ManifestAlways ==
  /\ [](\A p \in Solo : sg[p].pc \in PastManifest => ManifestStored(p))
  /\ [](\A p \in Solo :
         (~sg[p].download /\ sg[p].pc = "returned")
           => jobs[sg[p].jobId].status = "success")
  /\ [][\A p \in Solo : NoDownloadFrame(p)]_vars

\* a run without download returned although the fetcher had found images:
\* the store holds the manifest only and the ledger no asset
C20_Witness ==
  \E p \in Solo :
    /\ ~sg[p].download /\ sg[p].pc = "returned" /\ sg[p].nImages > 0
    /\ DOMAIN r2 = {ManifestKey(sg[p])}
    /\ assets = {} /\ segment_assets = {}
    /\ jobs[sg[p].jobId].status = "success"

-----------------------------------------------------------------------------
(* Claims about the errors of scrapeSegment, checked under SpecSegment *)

\* the two structural errors: no segment row, no edition for the row
Structural == {"segment_not_found", "edition_not_found"}

\* the ledger has no row for the segment, or none for the row's edition
NotFound(p) ==
  \A sr \in SegmentRows(sg[p].segmentId) : EditionRows(sr.edition_id) = {}

\* C21: when the segment, or the edition of the segment, is not found, the
\* run goes from the lookup straight to the catch block: the lookup is not
\* repeated, the fetcher is not called, nothing is written to the store, and
\* the job is marked failed with the error, provided the ledger accepts
\* that write
C21_StructuralFailure ==
  /\ [][\A p \in Solo :
         (sg[p].pc = "get_segment" /\ NotFound(p) /\ sg'[p] # sg[p])
           => (sg'[p].error \in Structural /\ sg'[p].pc = "mark_failed")]_vars
  /\ [][\A p \in Solo :
         (sg[p].pc \in {"create", "running", "get_segment"}
            \/ sg[p].error \in Structural)
           => (r2' = r2 /\ assets' = assets /\ segment_assets' = segment_assets)]_vars
  /\ [][\A p \in Solo :
         (sg[p].error \in Structural /\ sg'[p] # sg[p])
           => (sg[p].pc = "mark_failed" /\ sg'[p].pc = "threw")]_vars
  /\ [](\A p \in Solo :
         (sg[p].error \in Structural /\ sg[p].pc = "threw" /\ ~sg[p].writeFailed)
           => /\ jobs[sg[p].jobId].status = "failed"
              /\ jobs[sg[p].jobId].error = sg[p].error
              /\ sg[p].nImages = 0 /\ sg[p].nSubs = 0 /\ sg[p].nTexts = 0)

\* a run for a segment whose edition is missing has ended: the job is failed
\* with that error and the store is empty
C21_Witness ==
  \E p \in Solo :
    /\ sg[p].pc = "threw" /\ sg[p].error = "edition_not_found"
    /\ jobs[sg[p].jobId].status = "failed"
    /\ jobs[sg[p].jobId].error = "edition_not_found"
    /\ r2 = <<>>

-----------------------------------------------------------------------------
(* Claims about bulkScrapeSegments, checked under SpecBulk *)

HasAsset(segmentId) == \E l \in segment_assets : l.segment_id = segmentId

\* the edition the script works on has segments and each has an asset
FullyIngested(p) ==
  /\ bk[p].editionId # NoId
  /\ SegmentsOfEdition(bk[p].editionId) # {}
  /\ \A sr \in SegmentsOfEdition(bk[p].editionId) : HasAsset(sr.id)

\* C22: the bulk script starts scrape:segment only for segments without an
\* attached asset; a segment that has one is not among the pending ones, and
\* a run over a fully ingested edition starts no ingestion and writes
\* nothing to the store and to the assets tables
C22_RerunSkipsIngested ==
  /\ [][\A p \in Solo :
         (bk[p].pc = "item" /\ bk'[p].pc = "child")
           => ~HasAsset(bk[p].pending[bk[p].i + 1])]_vars
  /\ [](\A p \in Solo :
         (bk[p].pc = "item" /\ bk[p].i = 0)
           => \A k \in 1..Len(bk[p].pending) : ~HasAsset(bk[p].pending[k]))
  /\ [][\A p \in Solo :
         bk[p].pc \in {"resolve", "list", "check", "exited"}
           => /\ r2' = r2 /\ assets' = assets /\ segment_assets' = segment_assets
              /\ sg' = sg /\ up' = up]_vars
  /\ [][\A p \in Solo :
         (bk[p].pc = "check" /\ FullyIngested(p) /\ bk'[p] # bk[p])
           => (bk'[p].pc = "exited" /\ bk'[p].code = 0)]_vars

-----------------------------------------------------------------------------
(* Claims about the scrape:segment command, checked under SpecSegment *)

\* the command of worker p has exited and scrapeSegment had created a job
ExitedWithJob(p) == cli[p].pc = "exited" /\ sg[p].jobId # NoId

\* C23: the scrape:segment command exits with a non-zero code whenever the
\* job it created ended failed, and with zero only when that job ended
\* success
C23_ExitCode ==
  \A p \in Solo :
    cli[p].pc = "exited" =>
      /\ cli[p].code = 0 =>
           (sg[p].jobId # NoId /\ jobs[sg[p].jobId].status = "success")
      /\ (sg[p].jobId # NoId /\ jobs[sg[p].jobId].status = "failed")
           => cli[p].code # 0

C23_Witness ==
  \E p \in Solo :
    /\ ExitedWithJob(p)
    /\ jobs[sg[p].jobId].status = "failed"
    /\ cli[p].code = 1

-----------------------------------------------------------------------------
(* Claims about works and editions, checked under SpecRunner *)

\* C24: after any sequence of discoveries no two work rows carry the same
\* title and no two edition rows the same work, provider and media kind,
\* and a discovery that got past upsertWork has a work row for its title
C24_OneWorkPerTitle ==
  /\ \A w1, w2 \in works : w1.title = w2.title => w1 = w2
  /\ \A e1, e2 \in editions :
       (e1.work_id = e2.work_id /\ e1.provider = e2.provider
          /\ e1.media_type = e2.media_type) => e1 = e2
  /\ \A p \in Solo :
       sw[p].workId # NoId => WorksByTitle(sw[p].title) # {}

-----------------------------------------------------------------------------
(* Claims about the attempts of the uploader, checked under SpecUpload *)

\* the call of worker p is inside its retry loop
InCall(p) == up[p].pc \in {"put", "lookup", "insert", "attach"}

\* C25: within one call a put is issued only while no earlier put of the
\* call succeeded; the flag is set by the step in which the store takes the
\* object and by no other; once it is set the call never puts again, every
\* further attempt starts at the registration, and the store is not written
C25_PutAtMostOnce ==
  /\ [](\A p \in Solo :
         up[p].pc = "put" => (~up[p].uploadedToR2 /\ up[p].puts = 0))
  /\ [][\A p \in Solo :
         (InCall(p) /\ ~up[p].uploadedToR2 /\ up'[p].uploadedToR2)
           => /\ up[p].pc = "put"
              /\ r2' = PutObject(r2, up[p].r2Key, up[p].buffer)
              /\ up'[p].putOkAt = up[p].attempt]_vars
  /\ [][\A p \in Solo :
         (InCall(p) /\ up[p].uploadedToR2)
           => /\ r2' = r2
              /\ up'[p].pc # "put"
              /\ up'[p].uploadedToR2 /\ up'[p].puts = 1
              /\ up'[p].attempt = up[p].attempt + 1 => up'[p].pc = "lookup"]_vars

\* the put failed twice and went through on the third attempt; the call is
\* in its fourth attempt, at the registration
C25_Witness ==
  \E p \in Solo :
    /\ up[p].pc = "lookup" /\ up[p].attempt = 3
    /\ up[p].uploadedToR2 /\ up[p].putOkAt = 2 /\ up[p].puts = 1

-----------------------------------------------------------------------------
(* Claims about two job runners, checked under SpecContended *)

\* runner q has fetched job j and is claiming or processing it
Holds(q, j) ==
  rn[q].job = j /\ rn[q].pc \in {"set_running", "dispatch", "handler"}

\* C26: claiming a job is not mutually exclusive: while another runner holds
\* a job, a runner that fetched the same job can still set it running and
\* go on to dispatch it, and a runner that polls still gets the job as long
\* as the row is queued
C26_ClaimNotExclusive ==
  \A p, q \in Workers :
    p # q =>
      /\ (rn[p].pc = "set_running" /\ Holds(q, rn[p].job))
           => ENABLED RunnerSetRunningOk(p)
      /\ (rn[p].pc = "poll" /\ \E j \in OldestQueued : Holds(q, j))
           => ENABLED RunnerPollJob(p)

\* both runners fetched job 1, both set it running, both dispatched
\* scrapeSegment for it
C26_Witness ==
  /\ \A p \in Workers :
       /\ rn[p].pc = "handler" /\ rn[p].job = 1 /\ rn[p].marked
       /\ sg[p].pc # "idle"
  /\ jobs[1].status = "running"

-----------------------------------------------------------------------------
(* Claims about the order of the steps of scrapeSegment, under SpecSegment *)

\* the number of items of the loop a run is in
ItemsOf(f) ==
  CASE f.phase = "image" -> f.nImages
    [] f.phase = "subtitle" -> f.nSubs
    [] f.phase = "text" -> f.nTexts
    [] OTHER -> 0

\* a step that leaves the loop `from` for the loop `to` finished the last
\* item of `from`, and every loop between the two is empty
LoopChange(f, g) ==
  /\ f.phase = "none" => f.pc = "manifest"
  /\ f.phase # "none" => (f.i = ItemsOf(f) - 1 /\ g.i = 0)
  /\ f.phase \in {"none", "image"} => g.phase \in {"image", "subtitle", "text"}
  /\ f.phase = "subtitle" => g.phase = "text"
  /\ f.phase = "text" => FALSE
  /\ (f.phase = "none" /\ g.phase \in {"subtitle", "text"}) => f.nImages = 0
  /\ (f.phase \in {"none", "image"} /\ g.phase = "text") => f.nSubs = 0

\* C27: within one ingestion the manifest is in the store before the first
\* item is processed, the image loop is finished before the subtitle loop
\* starts and the subtitle loop before the text loop, and items are taken
\* one at a time: the next one starts only after the uploader returned
C27_StrictOrder ==
  /\ [][\A p \in Solo :
         (sg[p].pc \notin ItemPositions /\ sg'[p].pc \in ItemPositions)
           => /\ sg[p].pc = "manifest"
              /\ r2' = PutObject(r2, ManifestKey(sg[p]), ManifestBody(sg[p]))]_vars
  /\ [][\A p \in Solo :
         (sg[p].pc # "idle" /\ sg'[p].phase # sg[p].phase)
           => LoopChange(sg[p], sg'[p])]_vars
  /\ [][\A p \in Solo :
         (sg[p].pc \in ItemPositions /\ sg'[p].phase = sg[p].phase
            /\ sg'[p].i # sg[p].i)
           => /\ sg'[p].i = sg[p].i + 1
              /\ sg[p].pc = "upload" => up[p].pc \in {"done", "thrown"}
              /\ up'[p].pc = "idle"]_vars
  /\ [](\A p \in Solo :
         /\ sg[p].pc \in {"download", "text_item"} => up[p].pc = "idle"
         /\ sg[p].pc = "upload" =>
              (up[p].pc # "idle" /\ up[p].r2Key = CurrentKey(sg[p]))
         /\ sg[p].pc \in ItemPositions => sg[p].i < ItemsOf(sg[p]))

\* a run that went through two images and one subtitle is at its first text
C27_Witness ==
  \E p \in Solo :
    /\ sg[p].pc = "text_item" /\ sg[p].phase = "text" /\ sg[p].i = 0
    /\ sg[p].nImages = 2 /\ sg[p].nSubs >= 1
    /\ Len(sg[p].outcomes) = 2
    /\ ManifestStored(p)

\* the step of worker p ends the processing of an image item
ImageItemEnds(p) ==
  /\ sg[p].phase = "image" /\ sg[p].pc \in ItemPositions
  /\ (sg'[p].i # sg[p].i \/ sg'[p].phase # "image")

\* C28: the end of every image item but the last is followed by one
\* rate-limit delay, whatever the outcome of the item, and the end of the
\* last image by none
C28_DelayBetweenImages ==
  [][\A p \in Solo :
       ImageItemEnds(p) =>
         sg'[p].delays =
           sg[p].delays + (IF sg[p].i < sg[p].nImages - 1 THEN 1 ELSE 0)]_vars

-----------------------------------------------------------------------------
(* Claims about downloadAsset, checked under SpecDownload *)

\* C29: a call with retry count n makes at most n fetch attempts; when it
\* returns, it returns the bytes of the attempt it made last, every attempt
\* before that one failed and none follows; when it throws after n > 0
\* attempts, the error is the one of attempt n
C29_BoundedRetry ==
  /\ [](\A p \in Solo :
         LET f == da[p]
         IN /\ f.fetches <= f.retries
            /\ f.pc = "attempt" => f.attempt < f.retries
            /\ f.pc = "returned" =>
                 /\ f.result = ResponseBytes(f.url, f.attempt)
                 /\ f.fetches = f.attempt + 1
                 /\ f.error = NoError
            /\ (f.pc = "thrown" /\ f.retries > 0) =>
                 /\ f.attempt = f.retries - 1
                 /\ f.error.attempt = f.retries - 1
                 /\ f.error.kind \in {"request", "invalid_url"}
                 /\ ValidUrl(f.url) => f.fetches = f.retries
            /\ (f.pc = "thrown" /\ f.retries = 0) => f.fetches = 0)
  /\ [][\A p \in Solo :
         da[p].pc \in {"returned", "thrown"}
           => /\ da'[p].pc = "idle"
              /\ da'[p].got = da[p].result /\ da'[p].caught = da[p].error]_vars

\* three attempts, three failed requests: the third one's error is thrown
C29_Witness ==
  \E p \in Solo :
    /\ da[p].pc = "thrown" /\ da[p].retries = 3 /\ da[p].fetches = 3
    /\ da[p].error = FetchError(2)

-----------------------------------------------------------------------------
(* Claims about the backoff of uploadAndRegisterAsset, checked under
   SpecUpload *)

\* the sequence the comment above the delay gives: 2s, 4s, 8s, 16s, 32s
DocumentedWaits == <<2000, 4000, 8000, 16000, 32000>>

IsPrefix(s, t) == Len(s) <= Len(t) /\ \A k \in 1..Len(s) : s[k] = t[k]

\* the waits of frame f: one after each failed attempt but the one the call
\* ended on, the k-th of them min(2000 * 2^(k-1), 32000) ms
WaitsFollowFormula(f) ==
  /\ Len(f.waits) = f.attempt
  /\ Len(f.waits) <= Retries - 1
  /\ \A k \in 1..Len(f.waits) :
       /\ f.waits[k] = Min(2000 * Pow2(k - 1), 32000)
       /\ f.waits[k] <= 32000
       /\ k > 1 => f.waits[k - 1] <= f.waits[k]

\* C30: the wait after failed attempt k is min(2000 * 2^k, 32000) ms, which
\* for k = 0 .. 4 is the documented sequence 2s, 4s, 8s, 16s, 32s; the waits
\* of a call are taken from that sequence in order, are non-decreasing and at
\* most 32 s (also for an attempt past the documented ones), and no wait
\* follows the final failed attempt
C30_BackoffSequence ==
  /\ \A k \in 1..Len(DocumentedWaits) : BackoffDelay(k - 1) = DocumentedWaits[k]
  /\ \A k \in 0..Retries :
       BackoffDelay(k) <= 32000 /\ BackoffDelay(k) <= BackoffDelay(k + 1)
  /\ \A p \in Solo :
       /\ WaitsFollowFormula(up[p])
       /\ IsPrefix(up[p].waits, DocumentedWaits)
       /\ (up[p].pc = "done" /\ ~up[p].result) =>
            Len(up[p].waits) = up[p].attempt

\* every attempt failed: four waits, 2s, 4s, 8s, 16s, and none after the fifth
C30_Witness ==
  \E p \in Solo :
    /\ up[p].pc = "done" /\ ~up[p].result
    /\ up[p].waits = <<2000, 4000, 8000, 16000>>

-----------------------------------------------------------------------------
(* Claims about detectContentType, checked under SpecDetect *)

\* the payload starts with the bytes of sig
StartsWith(buffer, sig) ==
  Len(buffer) >= Len(sig) /\ \A k \in 1..Len(sig) : buffer[k] = sig[k]

\* FFD8FF, 89504E47, 52494646 and 47494638
JpegSignature == <<255, 216, 255>>
PngSignature == <<137, 80, 78, 71>>
RiffSignature == <<82, 73, 70, 70>>
GifSignature == <<71, 73, 70, 56>>

\* the stated extension mapping, the letter case of the extension aside
StatedTypeOfExt(ext) ==
  CASE ext \in {".srt", ".txt", ".html"} -> "text/plain"
    [] ext = ".vtt" -> "text/vtt"
    [] ext \in {".ass", ".ssa"} -> "text/x-ssa"
    [] ext = ".json" -> "application/json"
    [] OTHER -> "application/octet-stream"

StatedType(buffer, ext) ==
  IF StartsWith(buffer, JpegSignature) THEN "image/jpeg"
  ELSE IF StartsWith(buffer, PngSignature) THEN "image/png"
  ELSE IF StartsWith(buffer, RiffSignature) THEN "image/webp"
  ELSE IF StartsWith(buffer, GifSignature) THEN "image/gif"
  ELSE StatedTypeOfExt(toLowerCase(ext))

\* C31: a payload that starts with FFD8FF, 89504E47, 52494646 or 47494638 gets
\* the image type whatever the extension; otherwise .srt, .txt and .html give
\* text/plain, .vtt text/vtt, .ass and .ssa text/x-ssa, .json application/json
\* and every other extension application/octet-stream
C31_ContentType ==
  ct.pc = "returned" => ct.result = StatedType(ct.buffer, ct.ext)

-----------------------------------------------------------------------------
(* Claims about the assets ledger and the stored blobs, under SpecUpload *)

\* the row's digest and length are those of the blob stored under its key
RowDescribesBlob(a) ==
  /\ StoreHas(a.r2_key)
  /\ a.sha256 = computeFileHash(r2[a.r2_key]).sha256
  /\ a.bytes = computeFileHash(r2[a.r2_key]).bytes

\* C32: whenever no uploader call is under way, the recorded digest and byte
\* length of every Asset row are those of the blob now stored under its
\* storage key, also after the key was uploaded again with other bytes
C32_RowMatchesBlob ==
  (\A p \in Solo : up[p].pc = "idle") => \A a \in assets : RowDescribesBlob(a)

-----------------------------------------------------------------------------
(* Claims about the job row of scrapeSegment, checked under SpecSegment *)

\* the call of worker p has returned or thrown after it created its job row
EndedWithJob(p) == sg[p].pc \in {"returned", "threw"} /\ sg[p].jobId # NoId

\* C33: every job row scrapeSegment created is success or failed by the time
\* the call returns or throws, for every pattern of failures of the fetcher,
\* the store and the ledger, a failed write of the status itself included
C33_JobEndsTerminal ==
  \A p \in Solo :
    EndedWithJob(p) => jobs[sg[p].jobId].status \in {"success", "failed"}

\* the same for the calls whose every write to the jobs table was accepted
C33_TerminalIfWritesAccepted ==
  \A p \in Solo :
    (EndedWithJob(p) /\ ~sg[p].writeFailed) =>
      jobs[sg[p].jobId].status \in {"success", "failed"}

-----------------------------------------------------------------------------
(* Claims about starvation in the queue, checked under SpecPollingLive *)

\* job j has been handed to its handler by some runner
Dispatched(j) ==
  \E p \in Solo : \E k \in 1..Len(rn[p].order) : rn[p].order[k] = j

\* the runner is jobs:run without --once and no signal has stopped it
Continuous == \A p \in Solo : ~rn[p].once /\ (rn[p].pc # "idle" => isRunning[p])

\* the runner sleeps only when it found the queue empty: no getQueuedJobs failed
PollsAnswered == \A p \in Solo : rn[p].pc = "sleep" => QueuedIds = {}

\* C34: under a continuously running runner whose polls are answered, every
\* queued job is eventually dispatched, also a job queued behind one whose
\* transition to running fails
C34_NoStarvation ==
  [](Continuous /\ PollsAnswered) => \A j \in 1..QueueLen : <>Dispatched(j)

-----------------------------------------------------------------------------
(* Claims about a later run of bulkScrapeSegments, checked under SpecRerun *)

\* the segment has an attached asset and a job of it recorded failed items
PartlyIngested(segmentId) ==
  /\ HasAsset(segmentId)
  /\ \E j \in 1..Len(jobs) :
       /\ jobs[j].input.segmentId = segmentId /\ jobs[j].status = "success"
       /\ jobs[j].output.present /\ jobs[j].output.failedCount > 0

\* the earlier run left the ledger with what it wrote and nothing else
PartlyIngestedAtStart ==
  (\A p \in Solo : bk[p].pc \in {"idle", "resolve", "list", "check"}) =>
    /\ PartlyIngested(IngestedSegment.id)
    /\ ~StoreHas(FailedKey)

\* C35: once a segment has an attached asset no later run of the bulk script
\* starts scrape:segment for it, also when its last job recorded
\* failedCount > 0, so the item that failed then is never fetched and stored
C35_PartialNeverRetried ==
  /\ [](PartlyIngestedAtStart /\ ~StoreHas(FailedKey))
  /\ [][\A p \in Solo :
         (bk[p].pc = "item" /\ bk'[p].pc = "child")
           => ~HasAsset(bk[p].pending[bk[p].i + 1])]_vars

-----------------------------------------------------------------------------
(* Claims about the subtitle and text items of scrapeSegment, under
   SpecSegment *)

\* the run of worker p is in the subtitle loop or in the text loop
PastImages(p) == sg[p].pc # "idle" /\ sg[p].phase \in {"subtitle", "text"}

\* C36: only the images decide the job: a run with download that found no
\* image ends success with successCount = 0 and failedCount = 0 whatever
\* happens to its subtitle and text items, a run fails only when it found
\* images and stored none, and no step of the subtitle loop or of the text
\* loop changes successCount or failedCount
C36_OnlyImagesDecide ==
  /\ [](\A p \in Solo :
         BatchEnded(p) =>
           LET f == sg[p]
               job == jobs[f.jobId]
           IN /\ f.nImages = 0 =>
                   /\ job.status = "success"
                   /\ job.output.successCount = 0 /\ job.output.failedCount = 0
              /\ job.status = "failed" <=> (f.successCount = 0 /\ f.nImages > 0))
  /\ [][\A p \in Solo :
         (PastImages(p) /\ sg'[p].pc # "idle") =>
           /\ sg'[p].successCount = sg[p].successCount
           /\ sg'[p].failedCount = sg[p].failedCount]_vars

-----------------------------------------------------------------------------
(* Claims about the storage keys of one ingestion, checked under SpecSegment *)

\* item indexes around the widths the numbers are padded to, and the
\* extensions a payload URL may carry ("" for none)
KeyIndexes == { 0, 1, 8, 9, 10, 98, 99, 100, 998, 999, 1000 }
KeyExts == { "", ".jpg", ".vtt" }

\* the number a sequence of decimal digits writes
RECURSIVE ValueOf(_)
ValueOf(digits) ==
  IF digits = <<>> THEN 0
  ELSE 10 * ValueOf(SubSeq(digits, 1, Len(digits) - 1)) + digits[Len(digits)]

\* the name and key of item `index` of a loop, for a payload URL that parses
NameOf(index, type, ext) == getAssetFilename(AbsUrl(<<"u", index>>, ext), index, type)
KeyOf(index, type, ext) ==
  ItemKey(IngestedEdition, IngestedSegment, AbsUrl(<<"u", index>>, ext), index, type)

\* page-###.<ext>, sub-##.<ext>, text-##.txt with the 1-based index, under
\* raw/<media>/<workId>/<editionId>/<segmentType>-<ordinal>/
KeyShape ==
  \A i \in KeyIndexes, t \in ItemKinds, x \in KeyExts :
    LET n == NameOf(i, t, x)
        k == KeyOf(i, t, x)
    IN /\ ValueOf(n.num) = i + 1
       /\ Len(n.num) >= (IF t = "image" THEN 3 ELSE 2)
       /\ n.stem = (CASE t = "image" -> "page-" [] t = "subtitle" -> "sub-"
                      [] OTHER -> "text-")
       /\ t = "text" => n.ext = ".txt"
       /\ (t # "text" /\ x # "") => n.ext = x
       /\ k = <<"raw", IngestedEdition.media_type, IngestedEdition.work_id,
                IngestedEdition.id,
                <<IngestedSegment.segment_type, IngestedSegment.number>>, n>>

\* two items of one ingestion have the same key only if they are the same
\* item, and no item has the key of the manifest
KeysDistinct ==
  \A i, j \in KeyIndexes, t, u \in ItemKinds, x, y \in KeyExts :
    /\ KeyOf(i, t, x) = KeyOf(j, u, y) => (i = j /\ t = u)
    /\ KeyOf(i, t, x) #
         ManifestKey([IdleSeg EXCEPT !.segment = IngestedSegment,
                                     !.edition = IngestedEdition])

\* the keys a run builds: the manifest's, one per image and one per subtitle
\* (the name of a text item is never built: getAssetFilename throws on it)
RunKeys(f) ==
  {ManifestKey(f)}
    \cup { ItemKey(f.edition, f.segment, ImageUrl(j), j, "image") : j \in 0..(f.nImages - 1) }
    \cup { ItemKey(f.edition, f.segment, SubtitleUrl(j), j, "subtitle") : j \in 0..(f.nSubs - 1) }

\* C37: within one ingestion the keys of the manifest and of all items are
\* pairwise distinct and have the stated shape, every object in the store of a
\* run on an empty store is under one of them, and each item whose upload
\* succeeded has a blob of its own beside the manifest
C37_KeysDistinct ==
  /\ KeyShape /\ KeysDistinct
  /\ \A p \in Solo :
       sg[p].pc \in PastManifest =>
         /\ Cardinality(RunKeys(sg[p])) = 1 + sg[p].nImages + sg[p].nSubs
         /\ sg[p].jobId = 1 =>
              /\ DOMAIN r2 \subseteq RunKeys(sg[p])
              /\ Cardinality(DOMAIN r2) >= 1 + sg[p].uploadedAssets

\* a run on an empty store stored the manifest, two pages and a subtitle
C37_Witness ==
  \E p \in Solo :
    /\ sg[p].jobId = 1 /\ sg[p].nImages = 2 /\ sg[p].nSubs = 1
    /\ sg[p].uploadedAssets = 3 /\ Cardinality(DOMAIN r2) = 4

====
